---- MODULE Spec2Model ----
(***************************************************************************)
(* WebUIFlasher: the CLI flash tool (scripts/flash_firmware.py), the flash *)
(* utilities (scripts/flash_utils), the web flasher's /api/flash endpoint  *)
(* and WebSocket terminal handlers (scripts/webflasher.py) and the GPIO    *)
(* control (scripts/flash_utils/gpio_control.py), as state machines.       *)
(*                                                                         *)
(* esptool, PlatformIO, the file system, the WebSocket peer, the terminal  *)
(* user and RPi.GPIO are the environment: every outcome they can produce   *)
(* is a nondeterministic choice.                                           *)
(***************************************************************************)
EXTENDS Integers, Sequences, FiniteSets, TLC

VARIABLES
    entry,          \* which program runs: "cli", "api", "ws", "gpio", "terminal" or "line"
    args,           \* docopt's result for the CLI / the request of a web entry point
    fs,             \* the file system the run sees
    pc,             \* position of the running program
    config,         \* main's / the handler's `config`
    caller,         \* who called flash_firmware: "loop", "single" or "api"
    call,           \* flash_firmware's parameters and the locals of its callees
    result,         \* value returned by the last flash function
    exception,      \* exception propagating out of the current call, or None
    spawned,        \* subprocesses started by the current flash attempt, in order
    lookups,        \* manifest lookups made by the current flash attempt
    device_count,   \* main's `device_count`
    attempts,       \* number of flash_firmware calls made so far
    waits,          \* number of wait_for_user_input calls made so far
    out,            \* what the program reported: listing, batch report, exit status
    ws,             \* the messages sent to the WebSocket, in order
    proc,           \* the streaming handler's subprocess and loop variables
    gpio,           \* the GPIO controller, its configuration and its library calls
    tasks,          \* the serial monitor tasks asyncio has created, by state
    monitor_tasks   \* the global dict monitor_tasks: port -> task

webVars == <<ws, proc, gpio, tasks, monitor_tasks>>

vars == <<entry, args, fs, pc, config, caller, call, result, exception, spawned,
          lookups, device_count, attempts, waits, out, ws, proc, gpio, tasks,
          monitor_tasks>>

-----------------------------------------------------------------------------
(* Bounds of the model *)

\* batch mode: wait_for_user_input answers True only below this many devices
MaxDevices == 2
\* subprocess exit codes are 0..MaxExitCode
MaxExitCode == 1
\* a streamed subprocess writes at most this many pieces of output
MaxOutput == 3
\* a terminal connection receives at most this many messages
MaxMessages == 3

-----------------------------------------------------------------------------
(* Values *)

None == "<None>"

\* Python truthiness of an optional string (`if port:`, `if not project_path:`)
Truthy(s) == s # None /\ s # ""

\* the default of --baudrate and the web flasher's fixed baud rate
DefaultBaudrate == 921600

\* str(baudrate)
Str(n) == CASE n = 921600 -> "921600"
            [] n = 115200 -> "115200"

\* int(args["--baudrate"]): -1 stands for ValueError
ParseInt(s) == CASE s = "921600" -> 921600
                 [] s = "115200" -> 115200
                 [] OTHER -> -1

\* str(Path(dir) / file): pathlib drops a leading "./"
PathJoin(dir, file) ==
    (CASE dir = "./tmpfw" -> "tmpfw"
       [] dir = "./fw2"   -> "fw2"
       [] OTHER           -> dir) \o "/" \o file

-----------------------------------------------------------------------------
(* The environment: manifests, files, subprocess outcomes *)

\* sources.yaml: its fetchdir key is absent (None) or names a directory
SourcesYaml(fetchdir) ==
    [fetchdir |-> fetchdir,
     sources  |-> << [name |-> "fwA", type |-> "github", path |-> None],
                     [name |-> "fwL", type |-> "local",  path |-> "proj"] >>]

\* another manifest, with its own fetchdir
OtherYaml ==
    [fetchdir |-> "./fw2",
     sources  |-> << [name |-> "fwA", type |-> "github", path |-> None],
                     [name |-> "fwL", type |-> "local",  path |-> "proj"],
                     [name |-> "fwP", type |-> "local",  path |-> ""] >>]

ManifestFiles == {"sources.yaml", "other.yaml"}

\* yaml.safe_load of a manifest in file system f
ManifestContent(f, file) ==
    IF file = "sources.yaml" THEN SourcesYaml(f.fetchdir) ELSE OtherYaml

FirmwareNames == {"fwA", "fwL", "fwP", "nope"}

Ports == {"", "/dev/ttyUSB0"}

\* a file system: which manifests exist, the fetchdir key of sources.yaml,
\* in which directories <name>.bin files lie (if a directory holds them, it
\* holds one for every name), and whether the local project's directory
\* exists
FileSystems ==
    [yaml     : SUBSET ManifestFiles,
     fetchdir : {None, "./fw2"},
     bindirs  : SUBSET {"tmpfw", "fw2"},
     project  : BOOLEAN]

\* every path of the form <dir>/<name>.bin
BinPaths ==
    {PathJoin(d, n \o ".bin") : d \in {"tmpfw", "fw2"}, n \in FirmwareNames}

\* the WebSocket handlers read sources.yaml and tmpfw only
WsFileSystems ==
    {f \in FileSystems : f.project /\ f.fetchdir = None
                            /\ "other.yaml" \notin f.yaml /\ "fw2" \notin f.bindirs}

\* Path.exists() of <dir>/<name>.bin
BinExists(f, path) ==
    \E d \in f.bindirs : \E n \in FirmwareNames : path = PathJoin(d, n \o ".bin")

\* what running a subprocess can end in
Outcomes ==
    [kind : {"exit"}, code : 0..MaxExitCode]
        \cup [kind : {"FileNotFoundError", "PermissionError"}, code : {0}]

Exited0(o) == o.kind = "exit" /\ o.code = 0

-----------------------------------------------------------------------------
(* flash_utils/config.py *)

\* load_sources_config of a file that exists and parses; `file` remembers
\* which file the configuration came from
load_sources_config(f, file) ==
    [file     |-> file,
     fetchdir |-> ManifestContent(f, file).fetchdir,
     sources  |-> ManifestContent(f, file).sources]

\* the value of `config` before it is loaded
NoConfig == [file |-> None, fetchdir |-> None, sources |-> << >>]

\* find_firmware_config's None
NoSource == [name |-> None, type |-> None, path |-> None]

\* a lookup that falls back to the first source for an unknown name
find_firmware_config_fallback(cfg, name) ==
    IF \E i \in 1..Len(cfg.sources) : cfg.sources[i].name = name
    THEN cfg.sources[CHOOSE i \in 1..Len(cfg.sources) : cfg.sources[i].name = name]
    ELSE IF cfg.sources # << >> THEN cfg.sources[1] ELSE NoSource

\* find_firmware_config: the first source of that name, or None
find_firmware_config(cfg, name) ==
    IF \E i \in 1..Len(cfg.sources) : cfg.sources[i].name = name
    THEN cfg.sources[CHOOSE i \in 1..Len(cfg.sources) :
             /\ cfg.sources[i].name = name
             /\ \A j \in 1..(i-1) : cfg.sources[j].name # name]
    ELSE NoSource

\* config.get("fetchdir", "./tmpfw")
get_fetchdir(cfg) == IF cfg.fetchdir = None THEN "./tmpfw" ELSE cfg.fetchdir

\* get_firmware_path
get_firmware_path(cfg, name) == PathJoin(get_fetchdir(cfg), name \o ".bin")

-----------------------------------------------------------------------------
(* The commands the flash utilities build, as argument lists *)

\* flash_binary_file: python -m esptool --baud <rate> [--port <port>] write-flash 0x0 <file>
flash_binary_file_cmd(port, baudrate, firmware_path) ==
    << "python", "-m", "esptool", "--baud", Str(baudrate) >>
        \o (IF Truthy(port) THEN << "--port", port >> ELSE << >>)
        \o << "write-flash", "0x0", firmware_path >>

\* a flash_factory_image that writes the image behind the bootloader offset
flash_factory_image_cmd_at_0x1000(port, baudrate, factory_image) ==
    << "python", "-m", "esptool", "--baud", Str(baudrate) >>
        \o (IF Truthy(port) THEN << "--port", port >> ELSE << >>)
        \o << "write-flash", "0x1000", factory_image >>

\* flash_factory_image: the same command line for a factory image
flash_factory_image_cmd(port, baudrate, factory_image) ==
    << "python", "-m", "esptool", "--baud", Str(baudrate) >>
        \o (IF Truthy(port) THEN << "--port", port >> ELSE << >>)
        \o << "write-flash", "0x0", factory_image >>

\* flash_via_platformio: pio run --target upload [--upload-port <port>]
flash_via_platformio_cmd(port) ==
    << "pio", "run", "--target", "upload" >>
        \o (IF Truthy(port) THEN << "--upload-port", port >> ELSE << >>)

\* create_factory_image: the build
pio_run_cmd == << "pio", "run" >>

\* a merge that appends boot_app0.bin after the application
merge_bin_cmd_firmware_first(name, env_name, has_boot_app0) ==
    << "python", "-m", "esptool", "--chip", "esp32", "merge-bin",
       "-o", name \o "-factory.bin",
       "--flash-mode", "dio", "--flash-freq", "40m", "--flash-size", "4MB",
       "0x1000", PathJoin(PathJoin(".pio/build", env_name), "bootloader.bin"),
       "0x8000", PathJoin(PathJoin(".pio/build", env_name), "partitions.bin"),
       "0x10000", PathJoin(PathJoin(".pio/build", env_name), "firmware.bin") >>
        \o (IF has_boot_app0
            THEN << "0xe000", PathJoin(PathJoin(".pio/build", env_name), "boot_app0.bin") >>
            ELSE << >>)

\* create_factory_image: esptool merge-bin of the build environment's binaries;
\* boot_app0.bin is added only if it exists
merge_bin_cmd(name, env_name, has_boot_app0) ==
    << "python", "-m", "esptool", "--chip", "esp32", "merge-bin",
       "-o", name \o "-factory.bin",
       "--flash-mode", "dio", "--flash-freq", "40m", "--flash-size", "4MB",
       "0x1000", PathJoin(PathJoin(".pio/build", env_name), "bootloader.bin"),
       "0x8000", PathJoin(PathJoin(".pio/build", env_name), "partitions.bin") >>
        \o (IF has_boot_app0
            THEN << "0xe000", PathJoin(PathJoin(".pio/build", env_name), "boot_app0.bin") >>
            ELSE << >>)
        \o << "0x10000", PathJoin(PathJoin(".pio/build", env_name), "firmware.bin") >>

-----------------------------------------------------------------------------
(* subprocess.run(cmd, check=True) inside each function's try/except:       *)
(* "True", "False" or "None" is the value the function returns, "raise"     *)
(* an exception that leaves the function                                     *)

\* flash_binary_file: CalledProcessError, FileNotFoundError and Exception are caught
flash_binary_file_try(o) ==
    IF Exited0(o) THEN "True"
    ELSE IF o.kind = "exit" THEN "False"
    ELSE IF o.kind = "FileNotFoundError" THEN "False"
    ELSE "False"

\* flash_factory_image without its `except Exception`
flash_factory_image_try_uncaught(o) ==
    IF Exited0(o) THEN "True"
    ELSE IF o.kind = "exit" THEN "False"
    ELSE "raise"

\* flash_factory_image: CalledProcessError and Exception are caught
flash_factory_image_try(o) ==
    IF Exited0(o) THEN "True"
    ELSE IF o.kind = "exit" THEN "False"
    ELSE "False"

\* flash_via_platformio: CalledProcessError, FileNotFoundError and Exception are caught
flash_via_platformio_try(o) ==
    IF Exited0(o) THEN "True"
    ELSE IF o.kind = "exit" THEN "False"
    ELSE IF o.kind = "FileNotFoundError" THEN "False"
    ELSE "False"

\* create_factory_image's build: only CalledProcessError is caught
pio_run_try(o) ==
    IF Exited0(o) THEN "True"
    ELSE IF o.kind = "exit" THEN "None"
    ELSE "raise"

\* create_factory_image's merge: CalledProcessError and Exception are caught
merge_bin_try(o) ==
    IF Exited0(o) THEN "True"
    ELSE "None"

\* one entry of `spawned`
Spawn(fn, cmd, cwd, o, ret) ==
    [fn |-> fn, cmd |-> cmd, cwd |-> cwd, outcome |-> o, ret |-> ret]

-----------------------------------------------------------------------------
(* Initial values shared by the entry points *)

NoCall ==
    [name |-> None, port |-> None, baudrate |-> DefaultBaudrate,
     firmware_config |-> NoSource, image |-> None, boot_app0 |-> FALSE]

\* monitor_tasks = {} (line 23)
NoTasks == [port \in {} |-> 0]

\* no subprocess: the loop variables before the handler sets them
NoProc ==
    [handler |-> None, output |-> << >>, buffer |-> "",
     last_progress_line |-> None, returncode |-> -1]

\* `pin is None`, and config.get(pin_name) of an absent key
NoPin == -1

\* a FlashGPIOControl configuration: `present` is False for no configuration
\* (None or {}), each pin is a BCM number or NoPin
NoGpioConfig ==
    [present |-> FALSE, reset_pin |-> NoPin, boot_pin |-> NoPin, power_pin |-> NoPin,
     reset_active_low |-> TRUE, boot_active_low |-> TRUE]

\* no controller yet
\* the arguments of the last pulse_pin call: none yet
NoParams == [pin |-> NoPin, active_low |-> FALSE]

NoGpio ==
    [importable |-> FALSE, gpio_available |-> FALSE, config |-> NoGpioConfig,
     op |-> None, params |-> NoParams, ret |-> FALSE, calls |-> << >>]

NoOut == [listed |-> FALSE, reported |-> -1, exit |-> -1, http |-> 0]

\* the local project's build environment after `pio run`: a missing build
\* directory, no environment directory, required binaries missing, or a
\* complete environment with or without boot_app0.bin
BuildEnvs == {"no_build_dir", "no_env", "missing_files", "complete", "complete_boot_app0"}

\* the first environment directory's name
EnvName == "esp32dev"

CliArgs ==
    [name     : FirmwareNames \cup {None},
     port     : Ports \cup {None},
     sources  : ManifestFiles,
     baudrate : {"921600", "fast"},
     loop     : BOOLEAN,
     list     : BOOLEAN]

InitCli ==
    /\ entry = "cli"
    /\ args \in CliArgs
    /\ fs \in FileSystems
    /\ pc = "main"
    /\ config = NoConfig
    /\ caller = None
    /\ call = NoCall
    /\ result = FALSE
    /\ exception = None
    /\ spawned = << >>
    /\ lookups = {}
    /\ device_count = 0
    /\ attempts = 0
    /\ waits = 0
    /\ out = NoOut
    /\ ws = << >>
    /\ proc = NoProc
    /\ tasks = << >>
    /\ monitor_tasks = NoTasks
    /\ gpio = NoGpio

-----------------------------------------------------------------------------
(* scripts/flash_firmware.py: main *)

\* main, lines 98-103: load the configuration named by --sources;
\* load_sources_config exits with status 1 if the file is missing
main_load ==
    /\ entry = "cli"
    /\ pc = "main"
    /\ IF args.sources \in fs.yaml
       THEN /\ config' = load_sources_config(fs, args.sources)
            /\ pc' = "main_args"
            /\ out' = out
       ELSE /\ pc' = "exit"
            /\ out' = [out EXCEPT !.exit = 1]
            /\ config' = config
    /\ UNCHANGED <<webVars, entry, args, fs, caller, call, result, exception, spawned,
                   lookups, device_count, attempts, waits>>

\* a main that lists only when --list is given
list_mode_only_flag(a) == a.list

\* main, line 106: `if args["--list"] or not args["<name>"]`
list_mode(a) == a.list \/ ~Truthy(a.name)

\* main, lines 105-108: --list, or no name: list and return
main_list ==
    /\ pc = "main_args"
    /\ list_mode(args)
    /\ out' = [out EXCEPT !.listed = TRUE]
    /\ pc' = "returned"
    /\ UNCHANGED <<webVars, entry, args, fs, config, caller, call, result, exception,
                   spawned, lookups, device_count, attempts, waits>>

\* main, lines 110-128 and 149-151: read the flash options and enter the
\* batch loop or the single flash; int() of a bad baud rate raises ValueError
main_flash ==
    /\ pc = "main_args"
    /\ ~list_mode(args)
    /\ IF ParseInt(args.baudrate) = -1
       THEN /\ exception' = "ValueError"
            /\ pc' = "crashed"
            /\ UNCHANGED <<call, caller, device_count>>
       ELSE /\ call' = [NoCall EXCEPT !.name = args.name, !.port = args.port,
                                      !.baudrate = ParseInt(args.baudrate)]
            /\ exception' = exception
            /\ IF args.loop
               THEN /\ caller' = "loop"
                    /\ device_count' = 0
                    /\ pc' = "loop_top"
               ELSE /\ caller' = "single"
                    /\ device_count' = device_count
                    /\ pc' = "flash_firmware"
    /\ UNCHANGED <<webVars, entry, args, fs, config, result, spawned, lookups, attempts,
                   waits, out>>

\* main, lines 130-135: the next device of the batch
main_loop_next ==
    /\ pc = "loop_top"
    /\ device_count' = device_count + 1
    /\ pc' = "flash_firmware"
    /\ UNCHANGED <<webVars, entry, args, fs, config, caller, call, result, exception,
                   spawned, lookups, attempts, waits, out>>

\* main, lines 137-141: report the device's result, go on to wait for the user
main_loop_result ==
    /\ pc = "ff_return"
    /\ caller = "loop"
    /\ pc' = "wait_user"
    /\ UNCHANGED <<webVars, entry, args, fs, config, caller, call, result, exception,
                   spawned, lookups, device_count, attempts, waits, out>>

\* main, lines 143-147, with wait_for_user_input (lines 41-93): True goes on
\* with the next device, False ends the batch and reports device_count
wait_for_user_input ==
    /\ pc = "wait_user"
    /\ \E answer \in BOOLEAN :
        /\ answer => device_count < MaxDevices
        /\ waits' = waits + 1
        /\ IF answer
           THEN /\ pc' = "loop_top"
                /\ out' = out
           ELSE /\ pc' = "returned"
                /\ out' = [out EXCEPT !.reported = device_count]
    /\ UNCHANGED <<webVars, entry, args, fs, config, caller, call, result, exception,
                   spawned, lookups, device_count, attempts>>

\* main, lines 151-152: sys.exit(0 if success else 1)
main_single_exit ==
    /\ pc = "ff_return"
    /\ caller = "single"
    /\ pc' = "exit"
    /\ out' = [out EXCEPT !.exit = IF result THEN 0 ELSE 1]
    /\ UNCHANGED <<webVars, entry, args, fs, config, caller, call, result, exception,
                   spawned, lookups, device_count, attempts, waits>>

\* main has no try: an exception out of flash_firmware ends the program
main_uncaught ==
    /\ pc = "ff_raise"
    /\ caller \in {"loop", "single"}
    /\ pc' = "crashed"
    /\ UNCHANGED <<webVars, entry, args, fs, config, caller, call, result, exception,
                   spawned, lookups, device_count, attempts, waits, out>>

-----------------------------------------------------------------------------
(* scripts/flash_utils/flash.py, factory.py, platformio.py *)

\* one entry of `lookups`: which file's configuration gave the firmware
\* entry, or the path in which <name>.bin is looked for
Lookup(what, file, path) == [what |-> what, file |-> file, path |-> path]

\* flash_firmware, lines 123-139: look the name up in `config`; an unknown
\* name returns False, type "local" goes to flash_local_project, any other
\* type to flash_binary_file
flash_firmware ==
    /\ pc = "flash_firmware"
    /\ attempts' = attempts + 1
    /\ spawned' = << >>
    /\ lookups' = {Lookup("entry", config.file, None)}
    /\ LET firmware_config == find_firmware_config(config, call.name) IN
        /\ call' = [call EXCEPT !.firmware_config = firmware_config,
                                !.image = None, !.boot_app0 = FALSE]
        /\ IF firmware_config = NoSource
           THEN result' = FALSE /\ pc' = "ff_return"
           ELSE /\ result' = result
                /\ pc' = IF firmware_config.type = "local"
                         THEN "flash_local_project"
                         ELSE "flash_binary_file"
    /\ UNCHANGED <<webVars, entry, args, fs, config, caller, exception, device_count,
                   waits, out>>

\* flash_binary_file, lines 63-120: the binary is <fetchdir>/<name>.bin of
\* the configuration passed in; a missing file returns False, else esptool
\* is run and its outcome decides the result
flash_binary_file ==
    /\ pc = "flash_binary_file"
    /\ LET firmware_path == get_firmware_path(config, call.name) IN
        /\ lookups' = lookups \cup {Lookup("binary", config.file, firmware_path)}
        /\ IF ~BinExists(fs, firmware_path)
           THEN /\ result' = FALSE
                /\ spawned' = spawned
           ELSE \E o \in Outcomes :
                /\ spawned' = Append(spawned,
                       Spawn("flash_binary_file",
                             flash_binary_file_cmd(call.port, call.baudrate, firmware_path),
                             ".", o, flash_binary_file_try(o)))
                /\ result' = (flash_binary_file_try(o) = "True")
    /\ pc' = IF \E i \in 1..Len(spawned') : spawned'[i].ret = "raise"
             THEN "ff_raise" ELSE "ff_return"
    /\ exception' = IF pc' = "ff_raise" THEN spawned'[Len(spawned')].outcome.kind
                    ELSE exception
    /\ UNCHANGED <<webVars, entry, args, fs, config, caller, call, device_count, attempts,
                   waits, out>>

\* a flash_local_project that always builds from source
prefer_rebuild(downloaded_exists) == "create_factory_image"

\* flash_local_project, lines 41-54: the downloaded image is preferred to
\* building one: what flash_local_project does next
prefer_downloaded(downloaded_exists) ==
    IF downloaded_exists THEN "flash_factory_image" ELSE "create_factory_image"

\* flash_local_project, lines 13-50: no project path or no project
\* directory returns False; then the configuration is read from
\* "sources.yaml" (load_sources_config exits if it is missing) and the
\* downloaded image <fetchdir>/<name>.bin, if it exists, is what is flashed;
\* otherwise a factory image is created
flash_local_project ==
    /\ pc = "flash_local_project"
    /\ IF ~Truthy(call.firmware_config.path) \/ ~fs.project
       THEN /\ result' = FALSE
            /\ pc' = "ff_return"
            /\ UNCHANGED <<lookups, call, out>>
       ELSE IF "sources.yaml" \notin fs.yaml
       THEN /\ pc' = "exit"
            /\ out' = [out EXCEPT !.exit = 1]
            /\ UNCHANGED <<lookups, call, result>>
       ELSE LET cfg == load_sources_config(fs, "sources.yaml")
                downloaded_firmware == PathJoin(get_fetchdir(cfg), call.name \o ".bin")
            IN  /\ lookups' = lookups \cup {Lookup("binary", cfg.file, downloaded_firmware)}
                /\ pc' = prefer_downloaded(BinExists(fs, downloaded_firmware))
                /\ call' = IF pc' = "flash_factory_image"
                           THEN [call EXCEPT !.image = downloaded_firmware]
                           ELSE call
                /\ UNCHANGED <<result, out>>
    /\ UNCHANGED <<webVars, entry, args, fs, config, caller, exception, spawned,
                   device_count, attempts, waits>>

\* create_factory_image, lines 8-47: `pio run` in the project directory,
\* then look for the build environment and its three required binaries.
\* A failed build or an incomplete environment returns None, and
\* flash_local_project (lines 54-60) falls back to flash_via_platformio;
\* an exception other than CalledProcessError leaves the function
create_factory_image_build ==
    /\ pc = "create_factory_image"
    /\ \E o \in Outcomes :
        /\ spawned' = Append(spawned,
               Spawn("create_factory_image", pio_run_cmd,
                     call.firmware_config.path, o, pio_run_try(o)))
        /\ CASE pio_run_try(o) = "raise" ->
                    /\ exception' = o.kind
                    /\ pc' = "ff_raise"
                    /\ call' = call
             [] pio_run_try(o) = "None" ->
                    /\ exception' = exception
                    /\ pc' = "flash_via_platformio"
                    /\ call' = call
             [] OTHER ->
                    /\ exception' = exception
                    /\ \E env \in BuildEnvs :
                        IF env \in {"complete", "complete_boot_app0"}
                        THEN /\ pc' = "create_factory_image_merge"
                             /\ call' = [call EXCEPT !.boot_app0 = (env = "complete_boot_app0")]
                        ELSE /\ pc' = "flash_via_platformio"
                             /\ call' = call
    /\ UNCHANGED <<webVars, entry, args, fs, config, caller, result, lookups,
                   device_count, attempts, waits, out>>

\* create_factory_image, lines 49-111: esptool merge-bin in the project
\* directory; the image is returned if the merge exited 0 and the file
\* exists, and flash_local_project (lines 54-60) flashes it; otherwise it
\* falls back to flash_via_platformio
create_factory_image_merge ==
    /\ pc = "create_factory_image_merge"
    /\ \E o \in Outcomes, created \in BOOLEAN :
        /\ (~Exited0(o)) => ~created
        /\ spawned' = Append(spawned,
               Spawn("create_factory_image",
                     merge_bin_cmd(call.name, EnvName, call.boot_app0),
                     call.firmware_config.path, o,
                     IF merge_bin_try(o) = "True" /\ created THEN "Path" ELSE "None"))
        /\ IF merge_bin_try(o) = "True" /\ created
           THEN /\ call' = [call EXCEPT !.image =
                        PathJoin(call.firmware_config.path, call.name \o "-factory.bin")]
                /\ pc' = "flash_factory_image"
           ELSE /\ call' = call
                /\ pc' = "flash_via_platformio"
    /\ UNCHANGED <<webVars, entry, args, fs, config, caller, result, exception, lookups,
                   device_count, attempts, waits, out>>

\* flash_factory_image, lines 114-148: esptool write-flash of the image
flash_factory_image ==
    /\ pc = "flash_factory_image"
    /\ \E o \in Outcomes :
        /\ spawned' = Append(spawned,
               Spawn("flash_factory_image",
                     flash_factory_image_cmd(call.port, call.baudrate, call.image),
                     ".", o, flash_factory_image_try(o)))
        /\ result' = (flash_factory_image_try(o) = "True")
        /\ pc' = IF flash_factory_image_try(o) = "raise" THEN "ff_raise" ELSE "ff_return"
        /\ exception' = IF flash_factory_image_try(o) = "raise" THEN o.kind ELSE exception
    /\ UNCHANGED <<webVars, entry, args, fs, config, caller, call, lookups, device_count,
                   attempts, waits, out>>

\* flash_via_platformio, lines 9-43: pio run --target upload in the project
\* directory
flash_via_platformio ==
    /\ pc = "flash_via_platformio"
    /\ \E o \in Outcomes :
        /\ spawned' = Append(spawned,
               Spawn("flash_via_platformio", flash_via_platformio_cmd(call.port),
                     call.firmware_config.path, o, flash_via_platformio_try(o)))
        /\ result' = (flash_via_platformio_try(o) = "True")
        /\ pc' = IF flash_via_platformio_try(o) = "raise" THEN "ff_raise" ELSE "ff_return"
        /\ exception' = IF flash_via_platformio_try(o) = "raise" THEN o.kind ELSE exception
    /\ UNCHANGED <<webVars, entry, args, fs, config, caller, call, lookups, device_count,
                   attempts, waits, out>>

-----------------------------------------------------------------------------
(* Text: Python's str operations on TLA+ strings *)

\* the character at position i
Char(s, i) == SubSeq(s, i, i)

\* `c in s` for a one-character c
HasChar(s, c) == \E i \in 1..Len(s) : Char(s, i) = c

\* s.find(c) + 1 for a one-character c that is in s
FirstIndex(s, c) ==
    CHOOSE i \in 1..Len(s) : Char(s, i) = c /\ \A j \in 1..(i-1) : Char(s, j) # c

\* `sub in s`
Contains(s, sub) ==
    \E i \in 1..(Len(s) - Len(sub) + 1) : SubSeq(s, i, i + Len(sub) - 1) = sub

Upper == "ABCDEFGHIJKLMNOPQRSTUVWXYZ"
Lower == "abcdefghijklmnopqrstuvwxyz"

\* one character of str.lower()
LowerChar(c) == IF HasChar(Upper, c) THEN Char(Lower, FirstIndex(Upper, c)) ELSE c

RECURSIVE lower(_)
\* str.lower()
lower(s) == IF s = "" THEN "" ELSE LowerChar(Char(s, 1)) \o lower(SubSeq(s, 2, Len(s)))

\* the characters str.strip() removes
IsSpace(c) == c \in {" ", "\t", "\n", "\r", "\f"}

RECURSIVE lstrip(_)
lstrip(s) == IF s # "" /\ IsSpace(Char(s, 1)) THEN lstrip(SubSeq(s, 2, Len(s))) ELSE s

RECURSIVE rstrip(_)
rstrip(s) ==
    IF s # "" /\ IsSpace(Char(s, Len(s))) THEN rstrip(SubSeq(s, 1, Len(s) - 1)) ELSE s

\* str.strip()
strip(s) == rstrip(lstrip(s))

\* the escape character 0x1b, written as a printable character here
ESC == "~"

RECURSIVE AnsiParamsEnd(_, _)
\* the first position at or after i that is not one of [0-9;]
AnsiParamsEnd(s, i) ==
    IF i <= Len(s) /\ HasChar("0123456789;", Char(s, i))
    THEN AnsiParamsEnd(s, i + 1) ELSE i

RECURSIVE clean_ansi_sequences(_)
\* clean_ansi_sequences, lines 44-48: drop every match of \x1b\[[0-9;]*[mKABC]
clean_ansi_sequences(text) ==
    IF text = "" THEN ""
    ELSE IF /\ Char(text, 1) = ESC
            /\ Len(text) >= 2 /\ Char(text, 2) = "["
            /\ AnsiParamsEnd(text, 3) <= Len(text)
            /\ HasChar("mKABC", Char(text, AnsiParamsEnd(text, 3)))
         THEN clean_ansi_sequences(SubSeq(text, AnsiParamsEnd(text, 3) + 1, Len(text)))
         ELSE Char(text, 1) \o clean_ansi_sequences(SubSeq(text, 2, Len(text)))

\* a determine_message_type that looks for errors first
determine_message_type_error_first(line) ==
    LET line_lower == lower(line) IN
    IF Contains(line_lower, "error") \/ Contains(line_lower, "failed") THEN "error"
    ELSE IF Contains(line_lower, "writing at") \/ Contains(line, "%") THEN "progress"
    ELSE IF Contains(line_lower, "connecting") \/ Contains(line_lower, "chip is") THEN "info"
    ELSE IF Contains(line_lower, "compressed") \/ Contains(line_lower, "wrote") THEN "success"
    ELSE "output"

\* determine_message_type, lines 51-64
determine_message_type(line) ==
    LET line_lower == lower(line) IN
    IF Contains(line_lower, "writing at") \/ Contains(line, "%") THEN "progress"
    ELSE IF Contains(line_lower, "error") \/ Contains(line_lower, "failed") THEN "error"
    ELSE IF Contains(line_lower, "connecting") \/ Contains(line_lower, "chip is") THEN "info"
    ELSE IF Contains(line_lower, "compressed") \/ Contains(line_lower, "wrote") THEN "success"
    ELSE "output"

\* pieces of the lines esptool and PlatformIO print
Words == {"", "Writing at 0x00010000", "WRITING AT", "(50 %)", "A fatal error occurred",
          "FAILED", "Connecting....", "Chip is ESP32", "Compressed 1024 bytes",
          "Wrote 1024 bytes", "Hash of data verified."}

\* the lines determine_message_type is given
Lines == {a \o " " \o b : a \in Words, b \in Words}

InitLine ==
    /\ entry = "line"
    /\ args \in [line : Lines]
    /\ fs \in {f \in WsFileSystems : f.yaml = {} /\ f.bindirs = {}}
    /\ pc = "line"
    /\ config = NoConfig
    /\ caller = None
    /\ call = NoCall
    /\ result = None
    /\ exception = None
    /\ spawned = << >>
    /\ lookups = {}
    /\ device_count = 0
    /\ attempts = 0
    /\ waits = 0
    /\ out = NoOut
    /\ ws = << >>
    /\ proc = NoProc
    /\ tasks = << >>
    /\ monitor_tasks = NoTasks
    /\ gpio = NoGpio

\* a caller uses determine_message_type on a line
call_determine_message_type ==
    /\ entry = "line"
    /\ pc = "line"
    /\ result' = determine_message_type(args.line)
    /\ pc' = "typed"
    /\ UNCHANGED <<webVars, entry, args, fs, config, caller, call, exception, spawned,
                   lookups, device_count, attempts, waits, out>>

\* " ".join(cmd)
RECURSIVE JoinSpace(_)
JoinSpace(cmd) ==
    IF cmd = << >> THEN ""
    ELSE IF Len(cmd) = 1 THEN cmd[1]
    ELSE cmd[1] \o " " \o JoinSpace(Tail(cmd))

\* str(returncode)
IntStr(n) == CASE n = 0 -> "0" [] n = 1 -> "1" [] n = 2 -> "2" [] n = 3 -> "3"

-----------------------------------------------------------------------------
(* scripts/webflasher.py: POST /api/flash *)

WebPorts == {"auto", "", "/dev/ttyUSB0"}

ApiRequests == [firmware : FirmwareNames, port : WebPorts]

InitApi ==
    /\ entry = "api"
    /\ args \in ApiRequests
    /\ fs \in FileSystems
    /\ pc = "api"
    /\ config = NoConfig
    /\ caller = None
    /\ call = NoCall
    /\ result = FALSE
    /\ exception = None
    /\ spawned = << >>
    /\ lookups = {}
    /\ device_count = 0
    /\ attempts = 0
    /\ waits = 0
    /\ out = NoOut
    /\ ws = << >>
    /\ proc = NoProc
    /\ tasks = << >>
    /\ monitor_tasks = NoTasks
    /\ gpio = NoGpio

\* api_flash_firmware, lines 253-287: load "sources.yaml", answer 404 for a
\* name that is not in it or whose tmpfw/<name>.bin is missing, else call
\* flash_firmware with port None for "auto" and the fixed baud rate
api_flash_firmware ==
    /\ entry = "api"
    /\ pc = "api"
    /\ IF "sources.yaml" \notin fs.yaml
       THEN /\ pc' = "exit"
            /\ out' = [out EXCEPT !.exit = 1]
            /\ UNCHANGED <<config, call, caller>>
       ELSE LET cfg == load_sources_config(fs, "sources.yaml")
                firmware_found ==
                    \E i \in 1..Len(cfg.sources) : cfg.sources[i].name = args.firmware
                firmware_path == PathJoin("tmpfw", args.firmware \o ".bin")
            IN  /\ config' = cfg
                /\ IF ~firmware_found \/ ~BinExists(fs, firmware_path)
                   THEN /\ out' = [out EXCEPT !.http = 404]
                        /\ pc' = "responded"
                        /\ UNCHANGED <<call, caller>>
                   ELSE /\ call' = [NoCall EXCEPT
                                !.name = args.firmware,
                                !.port = IF args.port # "auto" THEN args.port ELSE None,
                                !.baudrate = DefaultBaudrate]
                        /\ caller' = "api"
                        /\ pc' = "flash_firmware"
                        /\ out' = out
    /\ UNCHANGED <<webVars, entry, args, fs, result, exception, spawned, lookups,
                   device_count, attempts, waits>>

\* an api_flash_firmware that answers success whatever flash_firmware returned
api_respond_always_success ==
    /\ pc = "ff_return"
    /\ caller = "api"
    /\ out' = [out EXCEPT !.http = 200]
    /\ pc' = "responded"
    /\ UNCHANGED <<webVars, entry, args, fs, config, caller, call, result, exception,
                   spawned, lookups, device_count, attempts, waits>>

\* api_flash_firmware, lines 289-300: FlashResponse(success=True) if
\* flash_firmware returned True, else HTTP 500
api_respond ==
    /\ pc = "ff_return"
    /\ caller = "api"
    /\ out' = [out EXCEPT !.http = IF result THEN 200 ELSE 500]
    /\ pc' = "responded"
    /\ UNCHANGED <<webVars, entry, args, fs, config, caller, call, result, exception,
                   spawned, lookups, device_count, attempts, waits>>

\* api_flash_firmware, lines 305-308: any Exception becomes HTTP 500
api_except ==
    /\ pc = "ff_raise"
    /\ caller = "api"
    /\ out' = [out EXCEPT !.http = 500]
    /\ pc' = "responded"
    /\ UNCHANGED <<webVars, entry, args, fs, config, caller, call, result, exception,
                   spawned, lookups, device_count, attempts, waits>>

-----------------------------------------------------------------------------
(* scripts/webflasher.py: the streaming loops of the WebSocket handlers *)

\* the pieces a subprocess's output is made of; "<C3>" and "<A9>" are the
\* two bytes of one UTF-8 character, read() may return them apart
OutputPieces == {"Chip is ESP32", "50%", "\n", "\r", "<C3>", "<A9>"}

RECURSIVE DecodeOk(_)
\* chunk.decode("utf-8") succeeds: no half of a two-byte character
DecodeOk(chunk) ==
    IF chunk = << >> THEN TRUE
    ELSE IF Head(chunk) = "<C3>"
         THEN Len(chunk) >= 2 /\ chunk[2] = "<A9>" /\ DecodeOk(SubSeq(chunk, 3, Len(chunk)))
    ELSE IF Head(chunk) = "<A9>" THEN FALSE
    ELSE DecodeOk(Tail(chunk))

RECURSIVE Decode(_)
\* chunk.decode("utf-8") of a chunk that decodes
Decode(chunk) ==
    IF chunk = << >> THEN ""
    ELSE IF Head(chunk) = "<C3>" THEN "é" \o Decode(SubSeq(chunk, 3, Len(chunk)))
    ELSE Head(chunk) \o Decode(Tail(chunk))

\* the chunks read() can return once `output` has been read
Chunks(output) ==
    UNION {[1..n -> OutputPieces] : n \in 1..(MaxOutput - Len(output))}

\* one message: json.dumps({"type": ..., "message": ..., "timestamp": ...});
\* `src` names the statement that sent it
Msg(type, message, src) == [type |-> type, message |-> message, src |-> src]

\* len(buffer) > 10 before a partial update is sent
PartialThreshold == 10

\* flash_with_live_output, lines 1023-1035 (handle_esptool_command, lines
\* 495-507): the partial update of a buffer without a line end
partial_update(buffer, last_progress_line) ==
    IF /\ Len(buffer) > PartialThreshold
       /\ ~HasChar(buffer, "\n") /\ ~HasChar(buffer, "\r")
       /\ strip(clean_ansi_sequences(buffer)) # ""
       /\ clean_ansi_sequences(buffer) # last_progress_line
    THEN << Msg("partial", clean_ansi_sequences(buffer), "partial") >>
    ELSE << >>

RECURSIVE process_lines(_)
\* flash_with_live_output, lines 1037-1088 (handle_esptool_command, lines
\* 509-558): while the buffer holds "\n" or "\r", cut the text before the
\* first "\n" (a complete line) or else before the first "\r" (a progress
\* update) off the buffer and send it
process_lines(st) ==
    IF ~HasChar(st.buffer, "\n") /\ ~HasChar(st.buffer, "\r") THEN st
    ELSE LET line_complete == HasChar(st.buffer, "\n")
             at == FirstIndex(st.buffer, IF line_complete THEN "\n" ELSE "\r")
             line == SubSeq(st.buffer, 1, at - 1)
             rest == SubSeq(st.buffer, at + 1, Len(st.buffer))
             line_clean == clean_ansi_sequences(line)
         IN  IF line_complete
             THEN process_lines(
                    [buffer |-> rest,
                     last_progress_line |-> st.last_progress_line,
                     msgs |-> IF line_clean # ""
                              THEN Append(st.msgs,
                                     Msg(determine_message_type(line_clean), line_clean, "line"))
                              ELSE st.msgs])
             ELSE IF line_clean # "" /\ line_clean # st.last_progress_line
             THEN process_lines(
                    [buffer |-> rest,
                     last_progress_line |-> line_clean,
                     msgs |-> Append(st.msgs, Msg("progress", line_clean, "cr"))])
             ELSE process_lines(
                    [buffer |-> rest,
                     last_progress_line |-> st.last_progress_line,
                     msgs |-> st.msgs])

\* flash_with_live_output, lines 1015-1088 (handle_esptool_command, lines
\* 489-558): one pass of the read loop for a non-empty chunk; a chunk that
\* does not decode is skipped
live_output_chunk(p, chunk) ==
    IF ~DecodeOk(chunk) THEN [buffer |-> p.buffer,
                              last_progress_line |-> p.last_progress_line,
                              msgs |-> << >>]
    ELSE LET buffer == p.buffer \o Decode(chunk) IN
         process_lines([buffer |-> buffer,
                        last_progress_line |-> p.last_progress_line,
                        msgs |-> partial_update(buffer, p.last_progress_line)])

\* flash_with_live_output, lines 1090-1102: what is left in the buffer at
\* the end of the output is sent as "output"
flash_with_live_output_rest(buffer) ==
    IF strip(buffer) # "" /\ strip(clean_ansi_sequences(buffer)) # ""
    THEN << Msg("output", clean_ansi_sequences(buffer), "rest") >>
    ELSE << >>

\* handle_esptool_command, lines 560-561: nothing is sent for what is left
\* in the buffer
handle_esptool_command_rest(buffer) == << >>

RECURSIVE update_lines(_)
\* handle_update_firmware_command, lines 646-661: complete lines only,
\* stripped before the ANSI clean-up
update_lines(st) ==
    IF ~HasChar(st.buffer, "\n") THEN st
    ELSE LET at == FirstIndex(st.buffer, "\n")
             line == SubSeq(st.buffer, 1, at - 1)
             rest == SubSeq(st.buffer, at + 1, Len(st.buffer))
             line_clean == clean_ansi_sequences(strip(line))
         IN  update_lines(
                [buffer |-> rest,
                 last_progress_line |-> st.last_progress_line,
                 msgs |-> IF line_clean # ""
                          THEN Append(st.msgs,
                                 Msg(determine_message_type(line_clean), line_clean, "line"))
                          ELSE st.msgs])

\* handle_update_firmware_command, lines 640-661: one pass of the read loop
update_chunk(p, chunk) ==
    IF ~DecodeOk(chunk) THEN [buffer |-> p.buffer,
                              last_progress_line |-> p.last_progress_line,
                              msgs |-> << >>]
    ELSE update_lines([buffer |-> p.buffer \o Decode(chunk),
                       last_progress_line |-> p.last_progress_line,
                       msgs |-> << >>])

\* handle_update_firmware_command, lines 663-675
handle_update_firmware_command_rest(buffer) ==
    IF strip(buffer) # "" /\ clean_ansi_sequences(strip(buffer)) # ""
    THEN << Msg("output", clean_ansi_sequences(strip(buffer)), "rest") >>
    ELSE << >>

\* a status that does not look at the return code
flash_with_live_output_status_ignoring_code(firmware_name, returncode) ==
    Msg("success", firmware_name \o " flashed successfully!", "status")

\* the status message after process.wait(): lines 1107-1126, 563-582, 680-702
flash_with_live_output_status(firmware_name, returncode) ==
    IF returncode = 0
    THEN Msg("success", firmware_name \o " flashed successfully!", "status")
    ELSE Msg("error", "Flash failed with code " \o IntStr(returncode), "status")

handle_esptool_command_status(returncode) ==
    IF returncode = 0
    THEN Msg("success", "Command completed successfully", "status")
    ELSE Msg("error", "Command failed with code " \o IntStr(returncode), "status")

handle_update_firmware_command_status(returncode) ==
    IF returncode = 0
    THEN Msg("success", "Firmware update completed successfully", "status")
    ELSE Msg("error", "Firmware update failed with code " \o IntStr(returncode), "status")

-----------------------------------------------------------------------------
(* scripts/webflasher.py: the WebSocket terminal's handlers *)

RECURSIVE Split(_)
\* str.split(): the words between runs of white space
Split(s) ==
    LET t == lstrip(s) IN
    IF t = "" THEN << >>
    ELSE LET ends == {i \in 1..Len(t) : IsSpace(Char(t, i))}
             n == IF ends = {} THEN Len(t) + 1
                  ELSE CHOOSE i \in ends : \A j \in ends : i <= j
         IN  << SubSeq(t, 1, n - 1) >> \o Split(SubSeq(t, n, Len(t)))

\* flash_with_live_output, lines 967-985: the port comes first, unless "auto"
flash_with_live_output_cmd(port, firmware_path) ==
    << "python", "-m", "esptool" >>
        \o (IF port # "auto" THEN << "--port", port >> ELSE << >>)
        \o << "--baud", "921600", "write-flash", "0x0", firmware_path >>

\* handle_esptool_command, line 461
handle_esptool_command_cmd(command) == << "python", "-m", "esptool" >> \o Split(command)

\* handle_update_firmware_command, lines 624-631
handle_update_firmware_command_cmd == << "uv", "run", "scripts/update_firmwares.py" >>

EsptoolCommands == {"chip_id", "--port /dev/ttyUSB0 flash_id", None}

WsMessages ==
    [type : {"flash"}, firmware : FirmwareNames, port : WebPorts \cup {None},
     command : {""}]
    \cup [type : {"esptool"}, firmware : {None}, port : {"auto"},
          command : EsptoolCommands]
    \cup [type : {"update_firmware"}, firmware : {None}, port : {"auto"},
          command : {""}]

InitWs ==
    /\ entry = "ws"
    /\ args \in WsMessages
    /\ fs \in WsFileSystems
    /\ args.type # "flash" => fs.yaml = {"sources.yaml"} /\ fs.bindirs = {"tmpfw"}
    /\ pc = "ws"
    /\ config = NoConfig
    /\ caller = None
    /\ call = NoCall
    /\ result = FALSE
    /\ exception = None
    /\ spawned = << >>
    /\ lookups = {}
    /\ device_count = 0
    /\ attempts = 0
    /\ waits = 0
    /\ out = NoOut
    /\ ws = << >>
    /\ proc = NoProc
    /\ tasks = << >>
    /\ monitor_tasks = NoTasks
    /\ gpio = NoGpio

\* a subprocess that create_subprocess_exec started
Running == [kind |-> "running", code |-> 0]

\* create_subprocess_exec raised: the executable is missing
NotStarted == [kind |-> "FileNotFoundError", code |-> 0]

\* the process has ended with this return code
Ended(sp, code) ==
    [sp EXCEPT ![Len(sp)].outcome = [kind |-> "exit", code |-> code]]

\* handle_flash_command, lines 387-452: announce the command, load
\* "sources.yaml", send an error and return for a name that is not in it or
\* whose tmpfw/<name>.bin is missing, else go on to flash_with_live_output
handle_flash_command ==
    /\ entry = "ws"
    /\ pc = "ws"
    /\ args.type = "flash"
    /\ IF "sources.yaml" \notin fs.yaml
       THEN /\ pc' = "exit"
            /\ out' = [out EXCEPT !.exit = 1]
            /\ ws' = << Msg("command", "flash firmware: " \o args.firmware, "command") >>
            /\ config' = config
       ELSE LET cfg == load_sources_config(fs, "sources.yaml")
                firmware_found ==
                    \E i \in 1..Len(cfg.sources) : cfg.sources[i].name = args.firmware
                firmware_path == PathJoin("tmpfw", args.firmware \o ".bin")
            IN  /\ config' = cfg
                /\ out' = out
                /\ IF ~firmware_found
                   THEN /\ ws' = << Msg("command", "flash firmware: " \o args.firmware, "command"),
                                    Msg("error", "Firmware '" \o args.firmware
                                            \o "' not found in configuration", "error") >>
                        /\ pc' = "handled"
                   ELSE IF ~BinExists(fs, firmware_path)
                   THEN /\ ws' = << Msg("command", "flash firmware: " \o args.firmware, "command"),
                                    Msg("error", "Firmware binary not found: " \o firmware_path,
                                        "error") >>
                        /\ pc' = "handled"
                   ELSE /\ ws' = << Msg("command", "flash firmware: " \o args.firmware, "command") >>
                        /\ pc' = "flash_with_live_output"
    /\ UNCHANGED <<entry, args, fs, caller, call, result, exception, spawned,
                   lookups, device_count, attempts, waits, proc, gpio,
                   tasks, monitor_tasks>>

\* flash_with_live_output, lines 955-1007: build the command and start it.
\* A port of None makes " ".join(cmd) raise TypeError, which
\* handle_flash_command's except reports (lines 443-452); an exception of
\* create_subprocess_exec is reported by lines 1128-1137
flash_with_live_output_start ==
    /\ pc = "flash_with_live_output"
    /\ LET cmd == flash_with_live_output_cmd(args.port,
                      PathJoin("tmpfw", args.firmware \o ".bin"))
           info == Msg("info", "Starting flash for " \o args.firmware \o "...", "info")
       IN  IF args.port = None
           THEN /\ ws' = ws \o << info, Msg("error", "Flash command failed: TypeError", "except") >>
                /\ pc' = "handled"
                /\ UNCHANGED <<spawned, proc>>
           ELSE \E started \in BOOLEAN :
                IF started
                THEN /\ ws' = ws \o << info, Msg("command", "Executing: " \o JoinSpace(cmd), "command") >>
                     /\ spawned' = Append(spawned,
                            Spawn("flash_with_live_output", cmd, ".", Running, "n/a"))
                     /\ proc' = [NoProc EXCEPT !.handler = "flash"]
                     /\ pc' = "flash_with_live_output_loop"
                ELSE /\ ws' = ws \o << info, Msg("command", "Executing: " \o JoinSpace(cmd), "command"),
                                      Msg("error", "Flash process failed: FileNotFoundError", "except") >>
                     /\ spawned' = Append(spawned,
                            Spawn("flash_with_live_output", cmd, ".", NotStarted, "n/a"))
                     /\ proc' = proc
                     /\ pc' = "handled"
    /\ UNCHANGED <<entry, args, fs, config, caller, call, result, exception,
                   lookups, device_count, attempts, waits, out, gpio,
                   tasks, monitor_tasks>>

\* flash_with_live_output, lines 1009-1088: read() returned a chunk
flash_with_live_output_read ==
    /\ pc = "flash_with_live_output_loop"
    /\ \E chunk \in Chunks(proc.output) :
        LET st == live_output_chunk(proc, chunk) IN
        /\ proc' = [proc EXCEPT !.output = @ \o chunk, !.buffer = st.buffer,
                                !.last_progress_line = st.last_progress_line]
        /\ ws' = ws \o st.msgs
    /\ UNCHANGED <<entry, args, fs, pc, config, caller, call, result, exception,
                   spawned, lookups, device_count, attempts, waits, out, gpio,
                   tasks, monitor_tasks>>

\* flash_with_live_output, lines 1012-1013 and 1090-1126: read() returned
\* nothing; send what is left in the buffer, wait for the process and send
\* the status for its return code
flash_with_live_output_eof ==
    /\ pc = "flash_with_live_output_loop"
    /\ \E returncode \in 0..MaxExitCode :
        /\ ws' = ws \o flash_with_live_output_rest(proc.buffer)
                    \o << flash_with_live_output_status(args.firmware, returncode) >>
        /\ proc' = [proc EXCEPT !.returncode = returncode]
        /\ spawned' = Ended(spawned, returncode)
    /\ pc' = "handled"
    /\ UNCHANGED <<entry, args, fs, config, caller, call, result, exception,
                   lookups, device_count, attempts, waits, out, gpio,
                   tasks, monitor_tasks>>

\* handle_esptool_command, lines 455-482: build the command, announce it and
\* start it; a command of None makes command.split() raise, and any
\* exception is reported by lines 584-593
handle_esptool_command_start ==
    /\ entry = "ws"
    /\ pc = "ws"
    /\ args.type = "esptool"
    /\ IF args.command = None
       THEN /\ ws' = << Msg("error", "esptool command failed: AttributeError", "except") >>
            /\ pc' = "handled"
            /\ UNCHANGED <<spawned, proc>>
       ELSE LET cmd == handle_esptool_command_cmd(args.command) IN
            \E started \in BOOLEAN :
                IF started
                THEN /\ ws' = << Msg("command", "Executing: " \o JoinSpace(cmd), "command") >>
                     /\ spawned' = Append(spawned,
                            Spawn("handle_esptool_command", cmd, ".", Running, "n/a"))
                     /\ proc' = [NoProc EXCEPT !.handler = "esptool"]
                     /\ pc' = "handle_esptool_command_loop"
                ELSE /\ ws' = << Msg("command", "Executing: " \o JoinSpace(cmd), "command"),
                                 Msg("error", "esptool command failed: FileNotFoundError", "except") >>
                     /\ spawned' = Append(spawned,
                            Spawn("handle_esptool_command", cmd, ".", NotStarted, "n/a"))
                     /\ proc' = proc
                     /\ pc' = "handled"
    /\ UNCHANGED <<entry, args, fs, config, caller, call, result, exception,
                   lookups, device_count, attempts, waits, out, gpio,
                   tasks, monitor_tasks>>

\* handle_esptool_command, lines 484-558: read() returned a chunk
handle_esptool_command_read ==
    /\ pc = "handle_esptool_command_loop"
    /\ \E chunk \in Chunks(proc.output) :
        LET st == live_output_chunk(proc, chunk) IN
        /\ proc' = [proc EXCEPT !.output = @ \o chunk, !.buffer = st.buffer,
                                !.last_progress_line = st.last_progress_line]
        /\ ws' = ws \o st.msgs
    /\ UNCHANGED <<entry, args, fs, pc, config, caller, call, result, exception,
                   spawned, lookups, device_count, attempts, waits, out, gpio,
                   tasks, monitor_tasks>>

\* handle_esptool_command, lines 486-487 and 560-582: read() returned
\* nothing; wait for the process and send the status for its return code
handle_esptool_command_eof ==
    /\ pc = "handle_esptool_command_loop"
    /\ \E returncode \in 0..MaxExitCode :
        /\ ws' = ws \o handle_esptool_command_rest(proc.buffer)
                    \o << handle_esptool_command_status(returncode) >>
        /\ proc' = [proc EXCEPT !.returncode = returncode]
        /\ spawned' = Ended(spawned, returncode)
    /\ pc' = "handled"
    /\ UNCHANGED <<entry, args, fs, config, caller, call, result, exception,
                   lookups, device_count, attempts, waits, out, gpio,
                   tasks, monitor_tasks>>

\* handle_update_firmware_command, lines 596-634: announce and start
\* `uv run scripts/update_firmwares.py`; an exception is reported by lines
\* 704-713
handle_update_firmware_command_start ==
    /\ entry = "ws"
    /\ pc = "ws"
    /\ args.type = "update_firmware"
    /\ LET intro == << Msg("info", "Current directory: .", "info"),
                       Msg("command", "Executing: uv run scripts/update_firmwares.py", "command") >>
       IN  \E started \in BOOLEAN :
            IF started
            THEN /\ ws' = intro
                 /\ spawned' = Append(spawned,
                        Spawn("handle_update_firmware_command",
                              handle_update_firmware_command_cmd, ".", Running, "n/a"))
                 /\ proc' = [NoProc EXCEPT !.handler = "update_firmware"]
                 /\ pc' = "handle_update_firmware_command_loop"
            ELSE /\ ws' = Append(intro,
                        Msg("error", "Update command failed: FileNotFoundError", "except"))
                 /\ spawned' = Append(spawned,
                        Spawn("handle_update_firmware_command",
                              handle_update_firmware_command_cmd, ".", NotStarted, "n/a"))
                 /\ proc' = proc
                 /\ pc' = "handled"
    /\ UNCHANGED <<entry, args, fs, config, caller, call, result, exception,
                   lookups, device_count, attempts, waits, out, gpio,
                   tasks, monitor_tasks>>

\* handle_update_firmware_command, lines 635-661: read() returned a chunk
handle_update_firmware_command_read ==
    /\ pc = "handle_update_firmware_command_loop"
    /\ \E chunk \in Chunks(proc.output) :
        LET st == update_chunk(proc, chunk) IN
        /\ proc' = [proc EXCEPT !.output = @ \o chunk, !.buffer = st.buffer]
        /\ ws' = ws \o st.msgs
    /\ UNCHANGED <<entry, args, fs, pc, config, caller, call, result, exception,
                   spawned, lookups, device_count, attempts, waits, out, gpio,
                   tasks, monitor_tasks>>

\* handle_update_firmware_command, lines 637-638 and 663-702: read()
\* returned nothing; send what is left in the buffer, wait for the process
\* and send the status for its return code
handle_update_firmware_command_eof ==
    /\ pc = "handle_update_firmware_command_loop"
    /\ \E returncode \in 0..MaxExitCode :
        /\ ws' = ws \o handle_update_firmware_command_rest(proc.buffer)
                    \o << handle_update_firmware_command_status(returncode) >>
        /\ proc' = [proc EXCEPT !.returncode = returncode]
        /\ spawned' = Ended(spawned, returncode)
    /\ pc' = "handled"
    /\ UNCHANGED <<entry, args, fs, config, caller, call, result, exception,
                   lookups, device_count, attempts, waits, out, gpio,
                   tasks, monitor_tasks>>

-----------------------------------------------------------------------------
(* scripts/flash_utils/gpio_control.py *)

\* Python truthiness of a pin (`if boot_pin:`): neither None nor 0
PinTruthy(pin) == pin # NoPin /\ pin # 0

\* one call of the RPi.GPIO library; ok is FALSE if the call raised
LibCall(fn, pin, arg, ok) == [fn |-> fn, pin |-> pin, arg |-> arg, ok |-> ok]

\* what a method did: the value it returned and its library calls in order
Did(ret, calls) == [ret |-> ret, calls |-> calls]

\* GPIOController.setup_pin, lines 34-59; oks[1] and oks[2] say whether
\* setmode and setup return or raise
setup_pin(gpio_available, pin, mode, oks) ==
    IF ~gpio_available THEN Did(FALSE, << >>)
    ELSE IF ~oks[1] THEN Did(FALSE, << LibCall("setmode", NoPin, "BCM", FALSE) >>)
    ELSE IF mode \notin {"OUT", "IN"}
         THEN Did(FALSE, << LibCall("setmode", NoPin, "BCM", TRUE) >>)
    ELSE Did(oks[2], << LibCall("setmode", NoPin, "BCM", TRUE),
                        LibCall("setup", pin, mode, oks[2]) >>)

\* a set_pin without the gpio_available guard
set_pin_unguarded(gpio_available, pin, value, ok) ==
    Did(ok, << LibCall("output", pin, IF value THEN "HIGH" ELSE "LOW", ok) >>)

\* GPIOController.set_pin, lines 61-79
set_pin(gpio_available, pin, value, ok) ==
    IF ~gpio_available THEN Did(FALSE, << >>)
    ELSE Did(ok, << LibCall("output", pin, IF value THEN "HIGH" ELSE "LOW", ok) >>)

\* a pulse_pin with the initial and the pulse level exchanged
pulse_pin_inverted(gpio_available, pin, active_low, oks) ==
    IF ~gpio_available THEN Did(FALSE, << >>)
    ELSE LET initial_state == active_low
             pulse_state == ~active_low
         IN  Did(TRUE,
                 set_pin(gpio_available, pin, initial_state, oks[1]).calls
                     \o set_pin(gpio_available, pin, pulse_state, oks[2]).calls
                     \o set_pin(gpio_available, pin, initial_state, oks[3]).calls)

\* GPIOController.pulse_pin, lines 81-114: three set_pin calls whose results
\* are not looked at
pulse_pin(gpio_available, pin, active_low, oks) ==
    IF ~gpio_available THEN Did(FALSE, << >>)
    ELSE LET initial_state == ~active_low
             pulse_state == active_low
         IN  Did(TRUE,
                 set_pin(gpio_available, pin, initial_state, oks[1]).calls
                     \o set_pin(gpio_available, pin, pulse_state, oks[2]).calls
                     \o set_pin(gpio_available, pin, initial_state, oks[3]).calls)

\* FlashGPIOControl._setup_pins, lines 145-156: setup_pin for every pin that
\* is not None
RECURSIVE setup_pins(_, _, _)
setup_pins(gpio_available, pins, oks) ==
    IF pins = << >> THEN << >>
    ELSE (IF Head(pins) # NoPin
          THEN setup_pin(gpio_available, Head(pins), "OUT", oks).calls
          ELSE << >>)
         \o setup_pins(gpio_available, Tail(pins), oks)

\* FlashGPIOControl.enter_flash_mode, lines 158-211
enter_flash_mode(gpio_available, cfg, oks) ==
    IF ~cfg.present THEN Did(FALSE, << >>)
    ELSE IF ~(PinTruthy(cfg.boot_pin) \/ PinTruthy(cfg.reset_pin)) THEN Did(FALSE, << >>)
    ELSE Did(TRUE,
             (IF PinTruthy(cfg.boot_pin)
              THEN set_pin(gpio_available, cfg.boot_pin, ~cfg.boot_active_low, oks[1]).calls
              ELSE << >>)
             \o (IF PinTruthy(cfg.reset_pin)
                 THEN pulse_pin(gpio_available, cfg.reset_pin, cfg.reset_active_low,
                                << oks[2], oks[3], oks[4] >>).calls
                 ELSE << >>)
             \o (IF PinTruthy(cfg.boot_pin)
                 THEN set_pin(gpio_available, cfg.boot_pin, cfg.boot_active_low, oks[5]).calls
                 ELSE << >>))

\* FlashGPIOControl.exit_flash_mode, lines 213-241
exit_flash_mode(gpio_available, cfg, oks) ==
    IF ~cfg.present THEN Did(FALSE, << >>)
    ELSE IF ~PinTruthy(cfg.reset_pin) THEN Did(FALSE, << >>)
    ELSE LET pulse == pulse_pin(gpio_available, cfg.reset_pin, cfg.reset_active_low, oks)
         IN  Did(pulse.ret, pulse.calls)

\* FlashGPIOControl.power_cycle, lines 243-271
power_cycle(gpio_available, cfg, oks) ==
    IF ~PinTruthy(cfg.power_pin) THEN Did(FALSE, << >>)
    ELSE Did(TRUE,
             set_pin(gpio_available, cfg.power_pin, FALSE, oks[1]).calls
                 \o set_pin(gpio_available, cfg.power_pin, TRUE, oks[2]).calls)

GpioConfigs ==
    {NoGpioConfig} \cup
    [present : {TRUE}, reset_pin : {NoPin, 0, 17}, boot_pin : {NoPin, 0, 27},
     power_pin : {NoPin, 22}, reset_active_low : BOOLEAN, boot_active_low : BOOLEAN]

\* whether each library call of a method returns (TRUE) or raises
Oks(n) == [1..n -> BOOLEAN]

InitGpio ==
    /\ entry = "gpio"
    /\ args = [gpio_config |-> "gpio"]
    /\ fs \in {f \in WsFileSystems : f.yaml = {} /\ f.bindirs = {}}
    /\ pc = "gpio"
    /\ config = NoConfig
    /\ caller = None
    /\ call = NoCall
    /\ result = FALSE
    /\ exception = None
    /\ spawned = << >>
    /\ lookups = {}
    /\ device_count = 0
    /\ attempts = 0
    /\ waits = 0
    /\ out = NoOut
    /\ ws = << >>
    /\ proc = NoProc
    /\ tasks = << >>
    /\ monitor_tasks = NoTasks
    /\ gpio \in [importable : BOOLEAN, gpio_available : {FALSE},
                 config : GpioConfigs, op : {None}, params : {NoParams}, ret : {FALSE},
                 calls : {<< >>}]

GpioUnchanged ==
    UNCHANGED <<entry, args, fs, config, caller, call, result, exception, spawned,
                lookups, device_count, attempts, waits, out, ws, proc, tasks,
                monitor_tasks>>

\* GPIOController._init_gpio, lines 22-32: gpio_available is True if
\* `import RPi.GPIO` succeeds and False on ImportError
init_gpio(importable) == IF importable THEN TRUE ELSE FALSE

\* FlashGPIOControl.__init__, lines 128-143, with GPIOController.__init__,
\* lines 17-20: find out whether GPIO is available, then set up the
\* configured pins
FlashGPIOControl_init ==
    /\ entry = "gpio"
    /\ pc = "gpio"
    /\ \E oks \in Oks(2) :
        gpio' = [gpio EXCEPT
                    !.gpio_available = init_gpio(gpio.importable),
                    !.op = "__init__",
                    !.calls = setup_pins(init_gpio(gpio.importable),
                                  << gpio.config.reset_pin, gpio.config.boot_pin,
                                     gpio.config.power_pin >>, oks)]
    /\ pc' = "gpio_ready"
    /\ GpioUnchanged

\* a caller uses GPIOController.setup_pin
call_setup_pin ==
    /\ pc = "gpio_ready"
    /\ \E pin \in {0, 17}, mode \in {"OUT", "IN", "PWM"}, oks \in Oks(2) :
        LET did == setup_pin(gpio.gpio_available, pin, mode, oks) IN
        gpio' = [gpio EXCEPT !.op = "setup_pin", !.params = NoParams,
                             !.ret = did.ret, !.calls = did.calls]
    /\ pc' = pc
    /\ GpioUnchanged

\* a caller uses GPIOController.set_pin
call_set_pin ==
    /\ pc = "gpio_ready"
    /\ \E pin \in {0, 17}, value \in BOOLEAN, ok \in BOOLEAN :
        LET did == set_pin(gpio.gpio_available, pin, value, ok) IN
        gpio' = [gpio EXCEPT !.op = "set_pin", !.params = NoParams,
                             !.ret = did.ret, !.calls = did.calls]
    /\ pc' = pc
    /\ GpioUnchanged

\* a caller uses GPIOController.pulse_pin
call_pulse_pin ==
    /\ pc = "gpio_ready"
    /\ \E pin \in {0, 17}, active_low \in BOOLEAN, oks \in Oks(3) :
        LET did == pulse_pin(gpio.gpio_available, pin, active_low, oks) IN
        gpio' = [gpio EXCEPT !.op = "pulse_pin",
                             !.params = [pin |-> pin, active_low |-> active_low],
                             !.ret = did.ret, !.calls = did.calls]
    /\ pc' = pc
    /\ GpioUnchanged

\* a caller uses FlashGPIOControl.enter_flash_mode
call_enter_flash_mode ==
    /\ pc = "gpio_ready"
    /\ \E oks \in Oks(5) :
        LET did == enter_flash_mode(gpio.gpio_available, gpio.config, oks) IN
        gpio' = [gpio EXCEPT !.op = "enter_flash_mode", !.params = NoParams,
                             !.ret = did.ret, !.calls = did.calls]
    /\ pc' = pc
    /\ GpioUnchanged

\* a caller uses FlashGPIOControl.exit_flash_mode
call_exit_flash_mode ==
    /\ pc = "gpio_ready"
    /\ \E oks \in Oks(3) :
        LET did == exit_flash_mode(gpio.gpio_available, gpio.config, oks) IN
        gpio' = [gpio EXCEPT !.op = "exit_flash_mode", !.params = NoParams,
                             !.ret = did.ret, !.calls = did.calls]
    /\ pc' = pc
    /\ GpioUnchanged

\* a caller uses FlashGPIOControl.power_cycle
call_power_cycle ==
    /\ pc = "gpio_ready"
    /\ \E oks \in Oks(2) :
        LET did == power_cycle(gpio.gpio_available, gpio.config, oks) IN
        gpio' = [gpio EXCEPT !.op = "power_cycle", !.params = NoParams,
                             !.ret = did.ret, !.calls = did.calls]
    /\ pc' = pc
    /\ GpioUnchanged

-----------------------------------------------------------------------------
(* scripts/webflasher.py: websocket_terminal and the serial monitor tasks *)

\* message.get("port", "auto") of a monitor message
MonitorPorts == {"auto", "/dev/ttyUSB0", "/dev/ttyUSB1"}

\* what the terminal client sends; "not json" is text json.loads rejects and
\* "reboot" a command type the terminal does not know
TerminalMessages ==
    [type : {"monitor"}, port : MonitorPorts, baudrate : {"115200", "fast"}]
    \cup [type : {"stop_monitor"}, port : MonitorPorts, baudrate : {"115200"}]
    \cup [type : {"ping", "reboot", "not json"}, port : {"auto"}, baudrate : {"115200"}]

\* one asyncio task running serial_monitor_task: `cancelled` says that
\* task.cancel() was called, `state` is "running", "cancelling" (cancel
\* requested, the task has not ended yet) or "done"
Task(port) == [port |-> port, state |-> "running", cancelled |-> FALSE]

\* del monitor_tasks[port] for every port of `ports`
Remove(dict, ports) == [port \in (DOMAIN dict) \ ports |-> dict[port]]

\* cleanup_finished_tasks, lines 26-34: drop the tasks that are done
cleanup_finished_tasks(dict, ts) ==
    Remove(dict, {port \in DOMAIN dict : ts[dict[port]].state = "done"})

\* a disconnect handler that forgets to cancel
cancel_none(ts, ids) == ts

\* websocket_terminal, lines 371-372: task.cancel() for every task of the dict
cancel(ts, ids) ==
    [i \in DOMAIN ts |->
        IF i \in ids
        THEN [ts[i] EXCEPT !.cancelled = TRUE,
                           !.state = IF @ = "done" THEN "done" ELSE "cancelling"]
        ELSE ts[i]]

InitTerminal ==
    /\ entry = "terminal"
    /\ args = << >>
    /\ fs \in {f \in WsFileSystems : f.yaml = {} /\ f.bindirs = {}}
    /\ pc = "terminal"
    /\ config = NoConfig
    /\ caller = None
    /\ call = NoCall
    /\ result = FALSE
    /\ exception = None
    /\ spawned = << >>
    /\ lookups = {}
    /\ device_count = 0
    /\ attempts = 0
    /\ waits = 0
    /\ out = NoOut
    /\ ws = << >>
    /\ proc = NoProc
    /\ tasks = << >>
    /\ monitor_tasks = NoTasks
    /\ gpio = NoGpio

TerminalUnchanged ==
    UNCHANGED <<entry, fs, config, caller, call, result, spawned, lookups,
                device_count, attempts, waits, out, proc, gpio>>

\* websocket_terminal, lines 314-325: accept and greet
websocket_terminal ==
    /\ entry = "terminal"
    /\ pc = "terminal"
    /\ ws' = << Msg("info", "WebSocket Terminal connected", "info") >>
    /\ pc' = "terminal_loop"
    /\ UNCHANGED <<args, exception, tasks, monitor_tasks>>
    /\ TerminalUnchanged

\* handle_monitor_command, lines 716-770, after cleanup_finished_tasks: "auto"
\* and a port that is already monitored are refused, else a task is created
\* and stored under its port; int() of a bad baud rate raises ValueError
handle_monitor_command(message) ==
    LET dict == cleanup_finished_tasks(monitor_tasks, tasks) IN
    IF ParseInt(message.baudrate) = -1
    THEN /\ exception' = "ValueError"
         /\ ws' = Append(ws, Msg("error", "Terminal error: ValueError", "except"))
         /\ pc' = "terminal_error"
         /\ monitor_tasks' = dict
         /\ tasks' = tasks
    ELSE /\ exception' = exception
         /\ pc' = pc
         /\ IF message.port = "auto"
            THEN /\ ws' = Append(ws, Msg("error", "Please select a specific serial port for monitoring", "error"))
                 /\ monitor_tasks' = dict
                 /\ tasks' = tasks
            ELSE IF message.port \in DOMAIN dict
            THEN /\ ws' = Append(ws, Msg("error", "Already monitoring port " \o message.port, "error"))
                 /\ monitor_tasks' = dict
                 /\ tasks' = tasks
            ELSE /\ ws' = ws \o << Msg("command", "Starting serial monitor on " \o message.port, "command"),
                                   Msg("info", "Serial monitor started for " \o message.port, "info") >>
                 /\ tasks' = Append(tasks, Task(message.port))
                 /\ monitor_tasks' = [port \in DOMAIN dict \cup {message.port} |->
                                        IF port = message.port THEN Len(tasks) + 1
                                        ELSE dict[port]]

\* handle_stop_monitor_command, lines 775-818, after cleanup_finished_tasks:
\* the port's task is cancelled and awaited, and its entry is deleted
handle_stop_monitor_command(message) ==
    LET dict == cleanup_finished_tasks(monitor_tasks, tasks) IN
    /\ exception' = exception
    /\ pc' = pc
    /\ IF message.port = "auto" \/ message.port \notin DOMAIN dict
       THEN /\ ws' = Append(ws, Msg("error", "No monitor running for port " \o message.port, "error"))
            /\ monitor_tasks' = dict
            /\ tasks' = tasks
       ELSE /\ tasks' = [cancel(tasks, {dict[message.port]})
                            EXCEPT ![dict[message.port]].state = "done"]
            /\ monitor_tasks' = Remove(dict, {message.port})
            /\ ws' = Append(ws, Msg("info", "Serial monitor stopped for " \o message.port, "info"))

\* websocket_terminal, lines 327-366: one turn of the loop for a message
\* that receive_text returned
websocket_terminal_message ==
    /\ entry = "terminal"
    /\ pc = "terminal_loop"
    /\ Len(args) < MaxMessages
    /\ \E message \in TerminalMessages :
        /\ args' = Append(args, message)
        /\ CASE message.type = "monitor" -> handle_monitor_command(message)
             [] message.type = "stop_monitor" -> handle_stop_monitor_command(message)
             [] message.type = "ping" ->
                    /\ ws' = Append(ws, Msg("pong", "Terminal connection alive", "pong"))
                    /\ monitor_tasks' = cleanup_finished_tasks(monitor_tasks, tasks)
                    /\ UNCHANGED <<pc, exception, tasks>>
             [] message.type = "not json" ->
                    /\ exception' = "JSONDecodeError"
                    /\ ws' = Append(ws, Msg("error", "Terminal error: JSONDecodeError", "except"))
                    /\ pc' = "terminal_error"
                    /\ monitor_tasks' = cleanup_finished_tasks(monitor_tasks, tasks)
                    /\ tasks' = tasks
             [] OTHER ->
                    /\ ws' = Append(ws, Msg("error", "Unknown command type: " \o message.type, "error"))
                    /\ monitor_tasks' = cleanup_finished_tasks(monitor_tasks, tasks)
                    /\ UNCHANGED <<pc, exception, tasks>>
    /\ TerminalUnchanged

\* websocket_terminal, lines 368-373: receive_text raised WebSocketDisconnect;
\* every task of monitor_tasks is cancelled and the dict is cleared
websocket_terminal_disconnect ==
    /\ entry = "terminal"
    /\ pc = "terminal_loop"
    /\ LET dict == cleanup_finished_tasks(monitor_tasks, tasks) IN
        /\ tasks' = cancel(tasks, {dict[port] : port \in DOMAIN dict})
        /\ monitor_tasks' = NoTasks
    /\ pc' = "disconnected"
    /\ UNCHANGED <<args, exception, ws>>
    /\ TerminalUnchanged

\* serial_monitor_task, lines 821-947: the task ends, because it was
\* cancelled or because the serial port failed; its `finally` deletes the
\* entry of its port, if there is one
serial_monitor_task_end ==
    /\ entry = "terminal"
    /\ \E i \in DOMAIN tasks :
        /\ tasks[i].state # "done"
        /\ tasks' = [tasks EXCEPT ![i].state = "done"]
        /\ monitor_tasks' = Remove(monitor_tasks, {tasks[i].port})
        /\ ws' = IF tasks[i].state = "running" /\ pc = "terminal_loop"
                 THEN Append(ws, Msg("error", "Serial error on " \o tasks[i].port, "monitor"))
                 ELSE ws
    /\ UNCHANGED <<args, exception, pc>>
    /\ TerminalUnchanged

-----------------------------------------------------------------------------
(* The programs *)

FlashActions ==
    \/ flash_firmware
    \/ flash_binary_file
    \/ flash_local_project
    \/ create_factory_image_build
    \/ create_factory_image_merge
    \/ flash_factory_image
    \/ flash_via_platformio

NextApi ==
    \/ api_flash_firmware
    \/ api_respond
    \/ api_except
    \/ FlashActions

NextWs ==
    \/ handle_flash_command
    \/ flash_with_live_output_start
    \/ flash_with_live_output_read
    \/ flash_with_live_output_eof
    \/ handle_esptool_command_start
    \/ handle_esptool_command_read
    \/ handle_esptool_command_eof
    \/ handle_update_firmware_command_start
    \/ handle_update_firmware_command_read
    \/ handle_update_firmware_command_eof

NextGpio ==
    \/ FlashGPIOControl_init
    \/ call_setup_pin
    \/ call_set_pin
    \/ call_pulse_pin
    \/ call_enter_flash_mode
    \/ call_exit_flash_mode
    \/ call_power_cycle

NextTerminal ==
    \/ websocket_terminal
    \/ websocket_terminal_message
    \/ websocket_terminal_disconnect
    \/ serial_monitor_task_end

NextLine == call_determine_message_type

NextCli ==
    \/ main_load
    \/ main_list
    \/ main_flash
    \/ main_loop_next
    \/ main_loop_result
    \/ wait_for_user_input
    \/ main_single_exit
    \/ main_uncaught
    \/ FlashActions

SpecCli == InitCli /\ [][NextCli]_vars

SpecApi == InitApi /\ [][NextApi]_vars

SpecLine == InitLine /\ [][NextLine]_vars

SpecTerminal == InitTerminal /\ [][NextTerminal]_vars

SpecWs == InitWs /\ [][NextWs]_vars

SpecGpio == InitGpio /\ [][NextGpio]_vars

\* every program of the repository
Init == InitCli \/ InitApi \/ InitWs \/ InitGpio \/ InitTerminal \/ InitLine

Next == NextCli \/ NextApi \/ NextWs \/ NextGpio \/ NextTerminal \/ NextLine

Spec == Init /\ [][Next]_vars

-----------------------------------------------------------------------------
(* Properties *)

\* the three functions that flash by running one subprocess
FlashFunctions == {"flash_binary_file", "flash_factory_image", "flash_via_platformio"}

\* C1: flash_binary_file, flash_factory_image and flash_via_platformio
\* return True if and only if the subprocess they ran exited with code 0;
\* a non-zero exit, a missing executable or another exception gives False
\* and never an exception to the caller, and that value is what
\* flash_firmware hands back.
C1_TrueIffExitZero ==
    /\ \A i \in 1..Len(spawned) :
        spawned[i].fn \in FlashFunctions =>
            /\ spawned[i].ret \in {"True", "False"}
            /\ spawned[i].ret = "True" <=> Exited0(spawned[i].outcome)
    /\ (pc = "ff_return" /\ spawned # << >>) =>
            /\ spawned[Len(spawned)].fn \in FlashFunctions
            /\ result = Exited0(spawned[Len(spawned)].outcome)

\* C1 witness: flash_factory_image ran esptool, the executable was missing,
\* and False came back to flash_firmware's caller
C1_Witness ==
    /\ pc = "ff_return"
    /\ spawned # << >>
    /\ spawned[Len(spawned)].fn = "flash_factory_image"
    /\ spawned[Len(spawned)].outcome.kind = "FileNotFoundError"
    /\ result = FALSE

\* the handler's subprocess was started and its output has ended
StreamEnded == proc.handler # None /\ pc = "handled"

\* the positions in ws of the status messages
StatusMessages == {i \in 1..Len(ws) : ws[i].src = "status"}

\* C2: in the three streaming handlers, once the subprocess was started and
\* its output has ended, exactly one status message has been sent, it is
\* the last message, its type is "success" for return code 0 and "error"
\* with the return code in its text otherwise; while the output is still
\* being read no status message has been sent.
C2_OneFinalStatus ==
    proc.handler # None =>
        IF pc = "handled"
        THEN /\ StatusMessages = {Len(ws)}
             /\ ws[Len(ws)].type = IF proc.returncode = 0 THEN "success" ELSE "error"
             /\ proc.returncode # 0 =>
                    Contains(ws[Len(ws)].message, "code " \o IntStr(proc.returncode))
        ELSE StatusMessages = {}

\* C2 witness: a flash whose output gave a line message and a rest message
\* ended with a non-zero code
C2_Witness ==
    /\ StreamEnded
    /\ proc.handler = "flash"
    /\ proc.returncode = 1
    /\ \E i \in 1..Len(ws) : ws[i].src = "line"
    /\ \E i \in 1..Len(ws) : ws[i].src = "rest"

\* the manifest the running program reads its firmware entry from
Manifest ==
    IF entry = "cli" THEN ManifestContent(fs, args.sources)
    ELSE ManifestContent(fs, "sources.yaml")

\* the firmware name the program was asked to flash
RequestedName == IF entry = "cli" THEN args.name ELSE args.firmware

\* the program is one that flashes a firmware by name
FlashesByName == entry \in {"cli", "api"} \/ (entry = "ws" /\ args.type = "flash")

InManifest(name) ==
    \E i \in 1..Len(Manifest.sources) : Manifest.sources[i].name = name

\* C3: for a firmware name without an entry in the manifest's sources no
\* subprocess is ever started: flash_firmware returns False,
\* handle_flash_command sends an "error" message and returns, and
\* api_flash_firmware answers 404.
C3_UnknownNameNeverSpawns ==
    (FlashesByName /\ ~InManifest(RequestedName)) =>
        /\ spawned = << >>
        /\ pc \notin {"flash_binary_file", "flash_local_project", "create_factory_image",
                      "create_factory_image_merge", "flash_factory_image",
                      "flash_via_platformio", "flash_with_live_output",
                      "flash_with_live_output_loop", "ff_raise"}
        /\ pc = "ff_return" => result = FALSE
        /\ pc = "responded" => out.http = 404
        /\ pc = "handled" => ws[Len(ws)].type = "error"

\* C3 witness: the CLI was asked for a name its manifest does not have and
\* flash_firmware has returned
C3_Witness ==
    /\ entry = "cli"
    /\ args.name = "nope"
    /\ attempts = 1
    /\ pc = "ff_return"

\* the image flash_local_project looks for: <fetchdir>/<name>.bin with the
\* fetchdir of sources.yaml
DownloadedImage ==
    PathJoin(get_fetchdir(ManifestContent(fs, "sources.yaml")), call.name \o ".bin")

\* flash_local_project has run for a configured, existing project whose
\* downloaded image exists
DownloadedCase ==
    /\ call.firmware_config.type = "local"
    /\ Truthy(call.firmware_config.path)
    /\ fs.project
    /\ "sources.yaml" \in fs.yaml
    /\ BinExists(fs, DownloadedImage)
    /\ pc # "flash_local_project"

\* C4: in flash_local_project, when the project path is configured and
\* exists and the downloaded image exists, that file is flashed with
\* flash_factory_image, no build, merge or upload is run, and the result is
\* the result of that one flash.
C4_DownloadedImagePreferred ==
    DownloadedCase =>
        /\ pc \notin {"create_factory_image", "create_factory_image_merge",
                      "flash_via_platformio"}
        /\ Len(spawned) <= 1
        /\ \A i \in 1..Len(spawned) :
            /\ spawned[i].fn = "flash_factory_image"
            /\ spawned[i].cmd[Len(spawned[i].cmd)] = DownloadedImage
        /\ pc = "flash_factory_image" => call.image = DownloadedImage
        /\ pc \in {"ff_return", "wait_user", "loop_top", "returned", "responded"} =>
            /\ Len(spawned) = 1
            /\ result = (spawned[1].ret = "True")

\* C4 witness: the downloaded image was flashed and the flash failed
C4_Witness ==
    /\ DownloadedCase
    /\ pc = "ff_return"
    /\ Len(spawned) = 1
    /\ spawned[1].fn = "flash_factory_image"
    /\ ~Exited0(spawned[1].outcome)
    /\ result = FALSE

\* C5: during one CLI run every manifest lookup uses the file given by
\* --sources: the firmware entry and the fetch directory in which <name>.bin
\* is looked for both come from the configuration of that file, for every
\* name and source type.
C5_LookupsUseSourcesOption ==
    entry = "cli" =>
        \A l \in lookups :
            /\ l.file = args.sources
            /\ l.what = "binary" =>
                l.path = get_firmware_path(ManifestContent(fs, args.sources), call.name)

\* C6: in --loop mode a failed flash never ends the batch: the program is
\* never ended by an attempt itself, every attempt is followed by a wait
\* for the user, and the device count reported at the end is the number of
\* attempts made.
C6_FailedFlashNeverEndsBatch ==
    (entry = "cli" /\ caller = "loop") =>
        /\ pc \notin {"exit", "crashed"}
        /\ pc \in {"wait_user", "ff_return"} => waits + 1 = attempts
        /\ pc \in {"loop_top", "returned"} => waits = attempts
        /\ pc = "returned" => out.reported = attempts

PortChosen == IF entry = "cli" THEN args.port # None ELSE args.port # "auto"

\* the positions of a port option in a command
PortArgs(cmd) == {j \in 1..Len(cmd) : cmd[j] \in {"--port", "--upload-port"}}

\* C8: a port argument is passed to the external tool if and only if the
\* caller chose a specific port: without one the esptool command has no
\* --port and the PlatformIO command no --upload-port, and otherwise the
\* command has exactly that port.
C8_PortIffChosen ==
    FlashesByName =>
        \A i \in 1..Len(spawned) :
            spawned[i].fn \in FlashFunctions \cup {"flash_with_live_output"} =>
                LET cmd == spawned[i].cmd
                    flag == IF spawned[i].fn = "flash_via_platformio"
                            THEN "--upload-port" ELSE "--port"
                IN  IF PortChosen
                    THEN /\ Cardinality(PortArgs(cmd)) = 1
                         /\ \E j \in 1..(Len(cmd) - 1) :
                                cmd[j] = flag /\ cmd[j + 1] = args.port
                    ELSE PortArgs(cmd) = {}

\* the functions that build an esptool write-flash command
WriteFlashFunctions == {"flash_binary_file", "flash_factory_image", "flash_with_live_output"}

\* C9: every esptool write-flash command built by flash_binary_file,
\* flash_factory_image and flash_with_live_output writes exactly one image:
\* write-flash is followed by the address 0x0 and one .bin file, and by
\* nothing else.
C9_OneImageAtZero ==
    \A i \in 1..Len(spawned) :
        spawned[i].fn \in WriteFlashFunctions =>
            LET cmd == spawned[i].cmd
                n == Len(cmd)
            IN  /\ n >= 3
                /\ {j \in 1..n : cmd[j] = "write-flash"} = {n - 2}
                /\ cmd[n - 1] = "0x0"
                /\ Len(cmd[n]) > 4
                /\ SubSeq(cmd[n], Len(cmd[n]) - 3, Len(cmd[n])) = ".bin"

\* C9 witness: a factory image was built, merged and then flashed
C9_Witness ==
    /\ Len(spawned) = 3
    /\ spawned[3].fn = "flash_factory_image"
    /\ spawned[3].cmd[Len(spawned[3].cmd)] = call.image
    /\ call.image = PathJoin(call.firmware_config.path, call.name \o "-factory.bin")
    /\ Exited0(spawned[3].outcome)

\* C10: where RPi.GPIO cannot be imported gpio_available is False,
\* setup_pin, set_pin and pulse_pin return False without a library call,
\* and enter_flash_mode, exit_flash_mode and power_cycle write no pin.
C10_NoGpioNoPinWrite ==
    (entry = "gpio" /\ ~gpio.importable) =>
        /\ ~gpio.gpio_available
        /\ gpio.op \in {"setup_pin", "set_pin", "pulse_pin"} =>
            gpio.ret = FALSE /\ gpio.calls = << >>
        /\ gpio.op \in {"enter_flash_mode", "exit_flash_mode", "power_cycle"} =>
            \A i \in 1..Len(gpio.calls) : gpio.calls[i].fn # "output"

\* C10 witness: enter_flash_mode was called with boot and reset pins
\* configured on a system without RPi.GPIO
C10_Witness ==
    /\ entry = "gpio"
    /\ ~gpio.importable
    /\ gpio.op = "enter_flash_mode"
    /\ gpio.config.boot_pin = 27 /\ gpio.config.reset_pin = 17
    /\ gpio.calls = << >>

\* C11: pulse_pin returns True if the pulse was successful and False
\* otherwise: True only when all three pin writes of the pulse succeeded.
C11_PulseTrueOnlyIfWritesSucceeded ==
    (entry = "gpio" /\ gpio.op = "pulse_pin") =>
        (gpio.ret <=> /\ Len(gpio.calls) = 3
                      /\ \A i \in 1..Len(gpio.calls) : gpio.calls[i].ok)

\* C12: with GPIO available pulse_pin writes the pin exactly three times,
\* LOW, HIGH, LOW if active_low is True and HIGH, LOW, HIGH otherwise, so
\* the last level written is the first one.
C12_PulseLevels ==
    (entry = "gpio" /\ gpio.op = "pulse_pin" /\ gpio.gpio_available) =>
        /\ Len(gpio.calls) = 3
        /\ \A i \in 1..Len(gpio.calls) :
            gpio.calls[i].fn = "output" /\ gpio.calls[i].pin = gpio.params.pin
        /\ << gpio.calls[1].arg, gpio.calls[2].arg, gpio.calls[3].arg >> =
                IF gpio.params.active_low THEN << "LOW", "HIGH", "LOW" >>
                ELSE << "HIGH", "LOW", "HIGH" >>
        /\ gpio.calls[3].arg = gpio.calls[1].arg

\* C12 witness: an active-low pulse on pin 17 whose three writes succeeded
C12_Witness ==
    /\ entry = "gpio"
    /\ gpio.op = "pulse_pin"
    /\ gpio.gpio_available
    /\ gpio.params = [pin |-> 17, active_low |-> TRUE]
    /\ Len(gpio.calls) = 3
    /\ \A i \in 1..Len(gpio.calls) : gpio.calls[i].ok

\* the level set_pin writes for a value
Level(value) == IF value THEN "HIGH" ELSE "LOW"

\* the positions in gpio.calls of the writes to a pin
Writes(pin) ==
    {i \in 1..Len(gpio.calls) : gpio.calls[i].fn = "output" /\ gpio.calls[i].pin = pin}

\* enter_flash_mode has run with GPIO available and a boot pin and a reset
\* pin configured
BootAndResetConfigured ==
    /\ entry = "gpio"
    /\ gpio.op = "enter_flash_mode"
    /\ gpio.gpio_available
    /\ gpio.config.present
    /\ gpio.config.boot_pin # NoPin
    /\ gpio.config.reset_pin # NoPin
    /\ gpio.config.boot_pin # gpio.config.reset_pin

\* C13: in enter_flash_mode with a boot pin and a reset pin configured the
\* boot pin is asserted before the reset pulse begins, is not written
\* during the pulse and is released only after the pulse has ended; with
\* the default active-low boot configuration it is asserted LOW and
\* released HIGH.
C13_BootHeldAcrossReset ==
    BootAndResetConfigured =>
        \E a, r \in Writes(gpio.config.boot_pin) :
            /\ Writes(gpio.config.boot_pin) = {a, r}
            /\ a < r
            /\ gpio.calls[a].arg = Level(~gpio.config.boot_active_low)
            /\ gpio.calls[r].arg = Level(gpio.config.boot_active_low)
            /\ \A i \in Writes(gpio.config.reset_pin) : a < i /\ i < r
            /\ gpio.config.boot_active_low =>
                gpio.calls[a].arg = "LOW" /\ gpio.calls[r].arg = "HIGH"

\* C14: enter_flash_mode returns True whenever a boot or a reset pin is
\* configured and exit_flash_mode whenever a reset pin is configured, and
\* each returns False only when there is no such configuration.
C14_TrueIffPinsConfigured ==
    entry = "gpio" =>
        /\ gpio.op = "enter_flash_mode" =>
            (gpio.ret <=> /\ gpio.config.present
                          /\ (gpio.config.boot_pin # NoPin \/ gpio.config.reset_pin # NoPin))
        /\ gpio.op = "exit_flash_mode" =>
            (gpio.ret <=> gpio.config.present /\ gpio.config.reset_pin # NoPin)

\* the binary api_flash_firmware requires before it flashes
ApiBinary == PathJoin("tmpfw", args.firmware \o ".bin")

\* C15: api_flash_firmware answers 404 for a firmware that is not in the
\* manifest and 404 when tmpfw/<name>.bin does not exist, in both cases
\* without calling flash_firmware; it answers 500 when the flash returned
\* False or raised, and success (200) only when flash_firmware returned True.
C15_ApiStatusCodes ==
    entry = "api" =>
        /\ attempts > 0 => InManifest(args.firmware) /\ BinExists(fs, ApiBinary)
        /\ pc = "responded" =>
            /\ ~InManifest(args.firmware) => out.http = 404 /\ attempts = 0
            /\ ~BinExists(fs, ApiBinary) => out.http = 404 /\ attempts = 0
            /\ (InManifest(args.firmware) /\ BinExists(fs, ApiBinary)) =>
                /\ attempts = 1
                /\ out.http = IF exception = None /\ result THEN 200 ELSE 500
            /\ out.http = 200 => result /\ exception = None

\* C15 witness: the flash raised (the build tool is missing) and the
\* request was answered with 500
C15_Witness ==
    /\ entry = "api"
    /\ pc = "responded"
    /\ attempts = 1
    /\ exception = "FileNotFoundError"
    /\ out.http = 500

\* C16: when a terminal connection disconnects, every task of monitor_tasks
\* is cancelled and monitor_tasks is empty afterwards: after the disconnect
\* the dict has no entry, and every monitor task that had not ended by
\* itself or been stopped has had cancel() called.
C16_DisconnectCancelsMonitors ==
    (entry = "terminal" /\ pc = "disconnected") =>
        /\ DOMAIN monitor_tasks = {}
        /\ \A i \in DOMAIN tasks : tasks[i].state = "done" \/ tasks[i].cancelled

\* C16 witness: two monitors were running when the connection disconnected
\* and both are being cancelled
C16_Witness ==
    /\ entry = "terminal"
    /\ pc = "disconnected"
    /\ Len(tasks) = 2
    /\ \A i \in DOMAIN tasks : tasks[i].state = "cancelling" /\ tasks[i].cancelled
    /\ tasks[1].port # tasks[2].port

\* the line contains the keyword, whatever the case of its letters
ContainsIgnoringCase(line, keyword) ==
    \E i \in 1..(Len(line) - Len(keyword) + 1) :
        lower(SubSeq(line, i, i + Len(keyword) - 1)) = keyword

\* C17: determine_message_type returns exactly one of "progress", "error",
\* "info", "success" and "output", by first match in this order: "progress"
\* for a line with "writing at" (in any case) or "%"; else "error" for
\* "error" or "failed"; else "info" for "connecting" or "chip is"; else
\* "success" for "compressed" or "wrote"; else "output".
C17_FirstMatchClassifier ==
    (entry = "line" /\ pc = "typed") =>
        LET line == args.line
            progress == ContainsIgnoringCase(line, "writing at") \/ Contains(line, "%")
            error    == ContainsIgnoringCase(line, "error") \/ ContainsIgnoringCase(line, "failed")
            info     == ContainsIgnoringCase(line, "connecting") \/ ContainsIgnoringCase(line, "chip is")
            success  == ContainsIgnoringCase(line, "compressed") \/ ContainsIgnoringCase(line, "wrote")
        IN  /\ result \in {"progress", "error", "info", "success", "output"}
            /\ result = "progress" <=> progress
            /\ result = "error"    <=> ~progress /\ error
            /\ result = "info"     <=> ~progress /\ ~error /\ info
            /\ result = "success"  <=> ~progress /\ ~error /\ ~info /\ success
            /\ result = "output"   <=> ~progress /\ ~error /\ ~info /\ ~success

\* C17 witness: a line that names both a failure and a write position is
\* classified as progress
C17_Witness ==
    /\ entry = "line"
    /\ pc = "typed"
    /\ args.line = "FAILED WRITING AT"
    /\ result = "progress"

RECURSIVE CompleteLines(_)
\* the newline-terminated lines of a text, in order
CompleteLines(text) ==
    IF ~HasChar(text, "\n") THEN << >>
    ELSE << SubSeq(text, 1, FirstIndex(text, "\n") - 1) >>
            \o CompleteLines(SubSeq(text, FirstIndex(text, "\n") + 1, Len(text)))

RECURSIVE ExpectedLineMessages(_)
\* one message for every line that is not empty after the ANSI clean-up
ExpectedLineMessages(lines) ==
    IF lines = << >> THEN << >>
    ELSE (IF clean_ansi_sequences(Head(lines)) # ""
          THEN << [type    |-> determine_message_type(clean_ansi_sequences(Head(lines))),
                   message |-> clean_ansi_sequences(Head(lines))] >>
          ELSE << >>)
         \o ExpectedLineMessages(Tail(lines))

RECURSIVE SentLineMessages(_)
\* the messages sent for complete lines, in order
SentLineMessages(msgs) ==
    IF msgs = << >> THEN << >>
    ELSE (IF Head(msgs).src = "line"
          THEN << [type |-> Head(msgs).type, message |-> Head(msgs).message] >>
          ELSE << >>)
         \o SentLineMessages(Tail(msgs))

\* the subprocess wrote valid UTF-8 and no carriage return
PlainLines ==
    /\ DecodeOk(proc.output)
    /\ \A i \in 1..Len(proc.output) : proc.output[i] # "\r"

\* C18: in flash_with_live_output and handle_esptool_command, however the
\* output is split into read chunks, every newline-terminated line that is
\* not empty after the ANSI clean-up is sent exactly once, with the type
\* determine_message_type gives it, and the lines are sent in their order
\* (stated for output of plain lines, without carriage returns).
C18_EveryLineSentOnce ==
    (proc.handler \in {"flash", "esptool"} /\ pc = "handled" /\ PlainLines) =>
        SentLineMessages(ws) = ExpectedLineMessages(CompleteLines(Decode(proc.output)))

\* what is left in the buffer when the output ends, cleaned and stripped
RemainingText == strip(clean_ansi_sequences(proc.buffer))

\* C19: in the three streaming handlers, non-blank output that is still in
\* the buffer when the subprocess closes its output is sent as a message
\* before the final status message: the message before the status carries
\* that text.
C19_RemainingBufferSent ==
    (StreamEnded /\ RemainingText # "") =>
        /\ Len(ws) >= 2
        /\ ws[Len(ws)].src = "status"
        /\ ws[Len(ws) - 1].src \in {"rest", "partial"}
        /\ Contains(ws[Len(ws) - 1].message, RemainingText)

\* the value of a flash address
HexValue(address) ==
    CASE address = "0x0"     -> 0
      [] address = "0x1000"  -> 4096
      [] address = "0x8000"  -> 32768
      [] address = "0xe000"  -> 57344
      [] address = "0x10000" -> 65536
      [] OTHER               -> -1

\* the path names the file
NamesFile(path, file) ==
    Len(path) > Len(file) /\ SubSeq(path, Len(path) - Len(file), Len(path)) = "/" \o file

\* the subprocesses that ran esptool's merge
Merges == {i \in 1..Len(spawned) :
            spawned[i].fn = "create_factory_image" /\ Len(spawned[i].cmd) > 6
                /\ spawned[i].cmd[6] = "merge-bin"}

\* the address/file arguments of a merge command: what follows --flash-size 4MB
MergePairs(cmd) == SubSeq(cmd, 15, Len(cmd))

\* C20: create_factory_image merges bootloader.bin at 0x1000, partitions.bin
\* at 0x8000, boot_app0.bin at 0xe000 if and only if that file exists, and
\* firmware.bin at 0x10000 as the last pair; the addresses are strictly
\* ascending.
C20_MergeOrder ==
    \A i \in Merges :
        LET p == MergePairs(spawned[i].cmd)
            n == IF call.boot_app0 THEN 4 ELSE 3
        IN  /\ spawned[i].cmd[13] = "--flash-size" /\ spawned[i].cmd[14] = "4MB"
            /\ Len(p) = 2 * n
            /\ p[1] = "0x1000" /\ NamesFile(p[2], "bootloader.bin")
            /\ p[3] = "0x8000" /\ NamesFile(p[4], "partitions.bin")
            /\ call.boot_app0 <=>
                \E k \in 1..n : p[2 * k - 1] = "0xe000" /\ NamesFile(p[2 * k], "boot_app0.bin")
            /\ p[2 * n - 1] = "0x10000" /\ NamesFile(p[2 * n], "firmware.bin")
            /\ \A k \in 1..(n - 1) :
                /\ HexValue(p[2 * k - 1]) >= 0
                /\ HexValue(p[2 * k - 1]) < HexValue(p[2 * k + 1])

\* C20 witness: a merge ran for a build environment that has boot_app0.bin
C20_Witness ==
    /\ Merges # {}
    /\ call.boot_app0
    /\ \E i \in Merges : Exited0(spawned[i].outcome) /\ Len(spawned[i].cmd) = 22

\* the position of the first line end, "\r" or "\n", of a text that has one
FirstTerminator(text) ==
    CHOOSE i \in 1..Len(text) :
        /\ Char(text, i) \in {"\r", "\n"}
        /\ \A j \in 1..(i - 1) : Char(text, j) \notin {"\r", "\n"}

RECURSIVE ExpectedSegmentMessages(_, _)
\* the messages for the segments of a text, each ended by its own "\r" or
\* "\n": a progress message for a segment before "\r", unless it is empty or
\* equal to the last one sent, and a classified message for a segment
\* before "\n", unless it is empty
ExpectedSegmentMessages(text, last_sent) ==
    IF ~HasChar(text, "\r") /\ ~HasChar(text, "\n") THEN << >>
    ELSE LET at == FirstTerminator(text)
             segment == clean_ansi_sequences(SubSeq(text, 1, at - 1))
             rest == SubSeq(text, at + 1, Len(text))
         IN  IF Char(text, at) = "\r"
             THEN IF segment # "" /\ segment # last_sent
                  THEN << Msg("progress", segment, "cr") >>
                          \o ExpectedSegmentMessages(rest, segment)
                  ELSE ExpectedSegmentMessages(rest, last_sent)
             ELSE (IF segment # ""
                   THEN << Msg(determine_message_type(segment), segment, "line") >>
                   ELSE << >>)
                  \o ExpectedSegmentMessages(rest, last_sent)

\* the messages sent for segments, in order
SentSegmentMessages == SelectSeq(ws, LAMBDA m : m.src \in {"cr", "line"})

\* the subprocess wrote single-byte characters only
SingleByteOutput ==
    \A i \in 1..Len(proc.output) : proc.output[i] \notin {"<C3>", "<A9>"}

\* C21: in flash_with_live_output and handle_esptool_command every output
\* segment ended by a carriage return is sent as its own "progress" message,
\* unless it equals the carriage-return segment sent before it, and only the
\* segments ended by a newline are classified with determine_message_type
\* (stated for output of single-byte characters).
C21_CarriageReturnSegments ==
    (proc.handler \in {"flash", "esptool"} /\ pc = "handled" /\ SingleByteOutput) =>
        SentSegmentMessages = ExpectedSegmentMessages(Decode(proc.output), None)

====
